---- MODULE Spec2Model ----
(***************************************************************************)
(* State-machine model of the eCAL service client (CServiceClientImpl)     *)
(* and of the objects it talks to: the client gate (discovery), the        *)
(* client manager and the client sessions.                                 *)
(*                                                                         *)
(* Every public method of CServiceClientImpl is one action, except the     *)
(* blocking fan-out Call, which is split where the calling thread can be   *)
(* overtaken by completions running on the I/O threads: once per peer of   *)
(* the dispatch loop, and at the condition-variable wait.                  *)
(***************************************************************************)
EXTENDS Integers, Sequences, FiniteSets, TLC

\* ------------------------------------------------------------------ bounds
\* server sessions that may be created over a run
MaxSessions == 3
\* sessions that may be created per peer key over a run
MaxIncarnations == 1
\* event callbacks delivered per peer key over a run
MaxEvents == 3

\* ------------------------------------------------------------- the domains
\* the threads that run member functions of the client concurrently
Threads == {"t1", "t2"}
\* an aggregator with no slot
NoAggregator == [responses |-> << >>, replies |-> << >>, pending |-> {}, finished |-> 0]
Keys == {"k1", "k2"}
\* the one service every announced peer hosts
Service == "svc"
ServiceNames == {"", Service}
EventKinds == {"connected", "disconnected"}
\* the peers that get announced in the life-cycle specification
LifeCycleKeys == {"k1"}
\* the arguments of SetHostName, of Call
HostArgs == {"*", "h1"}
\* the arguments of SetHostName where the filter is what is looked at: none,
\* any host, the host of k1, a host of no peer
FilterArgs == {"", "*", "h1", "h3"}
Methods  == {"", "echo"}
Timeouts == {0, 100}

\* a peer descriptor (SServiceAttr): host name, the two ports, the version
Descriptor(h, p0, p1, v) == [hname |-> h, tcp_port_v0 |-> p0, tcp_port_v1 |-> p1, version |-> v]

\* the descriptors of the peers of the main specifications: k1 speaks
\* protocol v1, k2 announces version 1 but has no v1 port
DefaultAttr ==
  [k \in Keys |-> IF k = "k1" THEN Descriptor("h1", 5000, 6000, 1)
                              ELSE Descriptor("h2", 5000, 0, 1)]

\* no entry under a key of m_client_map
NoSession == [id |-> 0, state |-> "NONE", version |-> 0, port |-> 0]

VARIABLES
  gate,                      \* g_clientgate() != nullptr
  mgr_stopped,               \* the client manager is null or stopped
  announced,                 \* keys GetServiceAttr(Service) returns
  attr,                      \* key -> descriptor the gate holds
  inc,                       \* key -> sessions created for it so far
  m_created,
  m_service_name,
  m_host_name,
  m_client_map,              \* key -> session (NoSession: no entry)
  m_connected_services_map,  \* the keys of the map
  m_event_callback_map,      \* kind -> "absent" | "null" | "set"
  m_response_callback,       \* TRUE: a callback is set
  events,                    \* key -> event callbacks delivered, in order
  silent,                    \* key -> the connected map changed with no callback entry
  threw,                     \* the last handler left by an exception
  \* the thread inside the blocking fan-out Call, and its aggregator
  pc,                        \* "idle" | "dispatch" | "wait" | "returned" | "rejected"
  method_name,               \* method_name_
  timeout,                   \* timeout_
  service_vec,               \* the discovery snapshot Call iterates over
  idx,                       \* the element of service_vec the loop is at
  responses,                 \* *responses, the slots of the aggregator
  expected,                  \* *expected_service_call_count
  finished,                  \* *finished_service_call_count
  pending,                   \* slots whose completion has not run yet
  replies,                   \* slot -> what its completion was called with
  dispatched,                \* the async_call_service calls of this fan-out
  stale,                     \* sessions FAILED when this fan-out refreshed discovery
  late,                      \* the slots still pending when the wait ended
  out,                       \* *service_response_vec_, the caller's vector
  ret,                       \* what Call / CallAsync returned
  \* the response callback: its mutex, who is inside it, the other call variants
  m_response_callback_sync,  \* TRUE: a thread holds the mutex
  variant,                   \* "vec" | "callback": the overload of Call that runs
  visits,                    \* the slots the callback loop of Call has handled
  async_calls,               \* the async_call_service calls of CallAsync
  user_cb_arg,               \* what the calling thread passed to the callback
  host_arg,                  \* the argument of the last SetHostName, "" if none
  \* the service server (ServerImpl) and its sessions
  srv,                       \* "none" | "alive" | "gone": the ServerImpl object
  acceptor_open,             \* acceptor_ has not been closed
  accept,                    \* "none" | "posted" | "succeeded" | "failed": the async_accept
  new_session,               \* the session the outstanding async_accept accepts into
  session_list_,             \* the weak pointers to the sessions, in order
  ssn,                       \* session -> "none" | "created" | "running" | "ending" | "removing" | "stopped" | "dropped"
  stop_requested,            \* the sessions stop() has been called on
  accepts_outstanding,       \* the async_accept operations posted and not yet handled
  session_list_mutex_,       \* TRUE while a shutdown callback holds the list mutex
  \* the aggregator of the fan-out before the current one
  prev,                      \* its slots, and the completions still to run on it
  \* the CServiceClientImpl object
  client_alive,              \* FALSE once the destructor has run
  uaf,                       \* a completion has used the object after the destructor
  \* the threads inside member functions, by the mutexes they take
  thread_op,                 \* thread -> the member function it is in, "none"
  thread_ip,                 \* thread -> the step of it that comes next
  held,                      \* thread -> the mutexes it holds, in the order taken
  completing,                \* the completions of Call that hold the aggregator mutex
  callback_op                \* thread -> the member function its user callback calls

callVars == << pc, method_name, timeout, service_vec, idx, responses,
               expected, finished, pending, replies, dispatched, stale, late,
               out, ret >>

asyncVars == << m_response_callback_sync, variant, visits, async_calls,
                user_cb_arg >>

serverVars == << srv, acceptor_open, accept, new_session, session_list_, ssn,
                 stop_requested, accepts_outstanding, session_list_mutex_ >>

lateVars == << prev >>

lifeVars == << client_alive, uaf >>

lockVars == << thread_op, thread_ip, held, completing, callback_op >>

moreVars == << lateVars, lifeVars, lockVars >>

vars == << moreVars, serverVars, host_arg, gate, mgr_stopped, announced, attr, inc, m_created, m_service_name,
           m_host_name, m_client_map, m_connected_services_map,
           m_event_callback_map, m_response_callback, events, silent, threw,
           callVars, asyncVars >>

\* --------------------------------------------------------- discovery glue
\* g_clientgate()->GetServiceAttr(name): the announced peers of that service
GetServiceAttr(name) == IF name = Service THEN announced ELSE {}

\* ---------------------------------------------------- CheckForNewServices
\* the version rule of CheckForNewServices
protocol_version(d) == IF d.tcp_port_v1 # 0 THEN d.version ELSE 0
port_to_use(d) == IF protocol_version(d) = 0 THEN d.tcp_port_v0 ELSE d.tcp_port_v1

\* client_manager->create_client(version, host, port, cb): a fresh session
create_client(k, d) ==
  [id |-> inc[k] + 1, state |-> "CONNECTING",
   version |-> protocol_version(d), port |-> port_to_use(d)]

\* the keys CheckForNewServices creates a session for
KeysToCreate(name, cmap) ==
  IF (~gate) \/ mgr_stopped THEN {}
  ELSE {k \in GetServiceAttr(name) : cmap[k].id = 0}

\* a refresh that also drops the sessions of the peers that are not announced
CheckForNewServicesReaping(name, cmap) ==
  [k \in Keys |-> IF k \in KeysToCreate(name, cmap) THEN create_client(k, attr[k])
                  ELSE IF k \notin GetServiceAttr(name) THEN NoSession
                  ELSE cmap[k]]

\* m_client_map after CheckForNewServices
CheckForNewServices(name, cmap) ==
  [k \in Keys |-> IF k \in KeysToCreate(name, cmap) THEN create_client(k, attr[k])
                                                    ELSE cmap[k]]

\* the session counters after CheckForNewServices
IncAfter(name, cmap) ==
  [k \in Keys |-> IF k \in KeysToCreate(name, cmap) THEN inc[k] + 1 ELSE inc[k]]

\* the model's bound on sessions per key lets the refresh run
CanRefresh(name, cmap) == \A k \in KeysToCreate(name, cmap) : inc[k] < MaxIncarnations

\* ------------------------------------------------------------ event record
Event(kind, k, cmap) == [kind |-> kind, session |-> cmap[k].id]

\* ---------------------------------------------------------------- Register
\* the keys whose disconnect Register handles: session FAILED, still connected
FailedConnected(cmap, conn) ==
  {k \in Keys : cmap[k].id # 0 /\ cmap[k].state = "FAILED" /\ k \in conn}

\* Register(force_) with m_service_name = name: what it leaves behind
Register(name) ==
  IF name = ""
  THEN [cmap |-> m_client_map, inc |-> inc, conn |-> m_connected_services_map,
        events |-> events, silent |-> silent, threw |-> FALSE]
  ELSE
    LET cmap == CheckForNewServices(name, m_client_map)
        gone == FailedConnected(cmap, m_connected_services_map)
        cb   == m_event_callback_map["disconnected"]
    IN  IF gone # {} /\ cb = "null"
        THEN \* the empty std::function is invoked: std::bad_function_call
             [cmap |-> cmap, inc |-> IncAfter(name, m_client_map),
              conn |-> m_connected_services_map,
              events |-> events, silent |-> silent, threw |-> TRUE]
        ELSE [cmap |-> cmap, inc |-> IncAfter(name, m_client_map),
              conn |-> m_connected_services_map \ gone,
              events |-> [k \in Keys |->
                            IF k \in gone /\ cb = "set"
                            THEN Append(events[k], Event("disconnected", k, cmap))
                            ELSE events[k]],
              silent |-> [k \in Keys |-> silent[k] \/ (k \in gone /\ cb = "absent")],
              threw |-> FALSE]

\* the bound on the event log lets Register run
CanRegister(name) ==
  /\ CanRefresh(name, m_client_map)
  /\ \A k \in Keys : Len(Register(name).events[k]) <= MaxEvents

\* ------------------------------------------------------------------ actions
\* Create(service_name_)
Create(name) ==
  /\ ~m_created
  /\ CanRegister(name)
  /\ LET r == Register(name) IN
       /\ m_service_name' = name
       /\ m_client_map' = r.cmap
       /\ inc' = r.inc
       /\ m_connected_services_map' = r.conn
       /\ events' = r.events
       /\ silent' = r.silent
       /\ threw' = r.threw
       /\ m_created' = ~r.threw
  /\ UNCHANGED << gate, mgr_stopped, announced, attr, m_host_name,
                  m_event_callback_map, m_response_callback >>
  /\ UNCHANGED callVars
  /\ UNCHANGED asyncVars
  /\ UNCHANGED host_arg
  /\ UNCHANGED serverVars
  /\ UNCHANGED moreVars

\* a lock that lets a thread in whoever holds the mutex
LockNotExclusive(mutex) == TRUE

\* locking a std::mutex: the thread gets past the lock_guard only if no
\* other thread holds the mutex
CanLock(mutex) == ~mutex

\* Destroy(); it has to take m_response_callback_sync to reset the response
\* callback, the completions of CallAsync that are still to come are left
\* alone (orphaned marks them)
DestroyBody ==
  /\ m_created
  /\ CanLock(m_response_callback_sync)
  /\ async_calls' = [i \in 1..Len(async_calls) |->
                       IF async_calls[i].state = "pending"
                       THEN [async_calls[i] EXCEPT !.orphaned = TRUE]
                       ELSE async_calls[i]]
  /\ UNCHANGED << m_response_callback_sync, variant, visits, user_cb_arg >>
  /\ m_client_map' = [k \in Keys |-> NoSession]
  /\ m_response_callback' = FALSE
  /\ m_event_callback_map' = [e \in EventKinds |-> "absent"]
  /\ m_service_name' = ""
  /\ m_host_name' = ""
  /\ host_arg' = ""
  /\ m_created' = FALSE
  /\ threw' = FALSE
  /\ UNCHANGED << gate, mgr_stopped, announced, attr, inc,
                  m_connected_services_map, events, silent >>
  /\ UNCHANGED callVars
  /\ UNCHANGED serverVars
  /\ UNCHANGED << lateVars, lockVars >>

\* Destroy() called by the user
Destroy == DestroyBody /\ UNCHANGED lifeVars

\* AddEventCallback(type_, callback_)
AddEventCallback(type) ==
  /\ m_created
  /\ m_event_callback_map' = [m_event_callback_map EXCEPT ![type] = "set"]
  /\ threw' = FALSE
  /\ UNCHANGED << gate, mgr_stopped, announced, attr, inc, m_created,
                  m_service_name, m_host_name, m_client_map,
                  m_connected_services_map, m_response_callback, events, silent >>
  /\ UNCHANGED callVars
  /\ UNCHANGED asyncVars
  /\ UNCHANGED host_arg
  /\ UNCHANGED serverVars
  /\ UNCHANGED moreVars

\* RemEventCallback(type_)
RemEventCallback(type) ==
  /\ m_created
  /\ m_event_callback_map' = [m_event_callback_map EXCEPT ![type] = "null"]
  /\ threw' = FALSE
  /\ UNCHANGED << gate, mgr_stopped, announced, attr, inc, m_created,
                  m_service_name, m_host_name, m_client_map,
                  m_connected_services_map, m_response_callback, events, silent >>
  /\ UNCHANGED callVars
  /\ UNCHANGED asyncVars
  /\ UNCHANGED host_arg
  /\ UNCHANGED serverVars
  /\ UNCHANGED moreVars

\* AddResponseCallback(callback_); a completion still to come finds this
\* callback, it is not orphaned any more
AddResponseCallback ==
  /\ CanLock(m_response_callback_sync)
  /\ m_response_callback' = TRUE
  /\ async_calls' = [i \in 1..Len(async_calls) |->
                       [async_calls[i] EXCEPT !.orphaned = FALSE]]
  /\ UNCHANGED << gate, mgr_stopped, announced, attr, inc, m_created,
                  m_service_name, m_host_name, m_client_map,
                  m_connected_services_map, m_event_callback_map, events,
                  silent, threw >>
  /\ UNCHANGED callVars
  /\ UNCHANGED << m_response_callback_sync, variant, visits, user_cb_arg >>
  /\ UNCHANGED host_arg
  /\ UNCHANGED serverVars
  /\ UNCHANGED moreVars

\* RemResponseCallback()
RemResponseCallback ==
  /\ CanLock(m_response_callback_sync)
  /\ m_response_callback' = FALSE
  /\ UNCHANGED << gate, mgr_stopped, announced, attr, inc, m_created,
                  m_service_name, m_host_name, m_client_map,
                  m_connected_services_map, m_event_callback_map, events,
                  silent, threw >>
  /\ UNCHANGED callVars
  /\ UNCHANGED asyncVars
  /\ UNCHANGED host_arg
  /\ UNCHANGED serverVars
  /\ UNCHANGED moreVars

\* RegisterService: is this a new connection ?
IsNewConnection(key) == key \notin m_connected_services_map

\* RegisterService(key_, service_)
RegisterService(key) ==
  LET cb == m_event_callback_map["connected"] IN
  /\ IF IsNewConnection(key)
     THEN IF cb = "null"
          THEN \* the empty std::function is invoked: std::bad_function_call
               /\ threw' = TRUE
               /\ UNCHANGED << m_connected_services_map, events, silent >>
          ELSE /\ cb = "set" => Len(events[key]) < MaxEvents
               /\ threw' = FALSE
               /\ m_connected_services_map' = m_connected_services_map \cup {key}
               /\ events' = IF cb = "set"
                            THEN [events EXCEPT ![key] =
                                    Append(@, Event("connected", key, m_client_map))]
                            ELSE events
               /\ silent' = [silent EXCEPT ![key] = @ \/ (cb = "absent")]
     ELSE /\ threw' = FALSE
          /\ UNCHANGED << m_connected_services_map, events, silent >>
  /\ UNCHANGED << gate, mgr_stopped, announced, attr, inc, m_created,
                  m_service_name, m_host_name, m_client_map,
                  m_event_callback_map, m_response_callback >>
  /\ UNCHANGED callVars
  /\ UNCHANGED asyncVars
  /\ UNCHANGED host_arg
  /\ UNCHANGED serverVars
  /\ UNCHANGED moreVars

\* the client gate applies a service registration sample of peer key to a
\* client that is registered with it
ApplyServiceRegistration(key) ==
  /\ gate
  /\ m_created
  /\ key \in GetServiceAttr(m_service_name)
  /\ RegisterService(key)

\* RefreshRegistration(): called by the client gate every second
RefreshRegistration ==
  /\ m_created
  /\ CanRegister(m_service_name)
  /\ LET r == Register(m_service_name) IN
       /\ m_client_map' = r.cmap
       /\ inc' = r.inc
       /\ m_connected_services_map' = r.conn
       /\ events' = r.events
       /\ silent' = r.silent
       /\ threw' = r.threw
  /\ UNCHANGED << gate, mgr_stopped, announced, attr, m_created, m_service_name,
                  m_host_name, m_event_callback_map, m_response_callback >>
  /\ UNCHANGED callVars
  /\ UNCHANGED asyncVars
  /\ UNCHANGED host_arg
  /\ UNCHANGED serverVars
  /\ UNCHANGED moreVars

\* IsConnected()
IsConnected == IF ~m_created THEN FALSE ELSE m_connected_services_map # {}

\* ------------------------------------------------------------ environment
\* a peer starts to be announced by discovery
PeerAppear(k) ==
  /\ gate
  /\ k \notin announced
  /\ announced' = announced \cup {k}
  /\ UNCHANGED << gate, mgr_stopped, attr, inc, m_created, m_service_name,
                  m_host_name, m_client_map, m_connected_services_map,
                  m_event_callback_map, m_response_callback, events, silent, threw >>
  /\ UNCHANGED callVars
  /\ UNCHANGED asyncVars
  /\ UNCHANGED host_arg
  /\ UNCHANGED serverVars
  /\ UNCHANGED moreVars

\* its announcement expires
PeerVanish(k) ==
  /\ k \in announced
  /\ announced' = announced \ {k}
  /\ UNCHANGED << gate, mgr_stopped, attr, inc, m_created, m_service_name,
                  m_host_name, m_client_map, m_connected_services_map,
                  m_event_callback_map, m_response_callback, events, silent, threw >>
  /\ UNCHANGED callVars
  /\ UNCHANGED asyncVars
  /\ UNCHANGED host_arg
  /\ UNCHANGED serverVars
  /\ UNCHANGED moreVars

\* the client manager stops: every live session fails, none is created again
ManagerStop ==
  /\ ~mgr_stopped
  /\ mgr_stopped' = TRUE
  /\ m_client_map' = [k \in Keys |->
                        IF m_client_map[k].id # 0
                        THEN [m_client_map[k] EXCEPT !.state = "FAILED"]
                        ELSE m_client_map[k]]
  /\ UNCHANGED << gate, announced, attr, inc, m_created, m_service_name,
                  m_host_name, m_connected_services_map, m_event_callback_map,
                  m_response_callback, events, silent, threw >>
  /\ UNCHANGED callVars
  /\ UNCHANGED asyncVars
  /\ UNCHANGED host_arg
  /\ UNCHANGED serverVars
  /\ UNCHANGED moreVars

\* the session of key k connects
SessionConnect(k) ==
  /\ m_client_map[k].state = "CONNECTING"
  /\ m_client_map' = [m_client_map EXCEPT ![k].state = "CONNECTED"]
  /\ UNCHANGED << gate, mgr_stopped, announced, attr, inc, m_created,
                  m_service_name, m_host_name, m_connected_services_map,
                  m_event_callback_map, m_response_callback, events, silent, threw >>
  /\ UNCHANGED callVars
  /\ UNCHANGED asyncVars
  /\ UNCHANGED host_arg
  /\ UNCHANGED serverVars
  /\ UNCHANGED moreVars

\* an I/O error moves the session of key k to FAILED
SessionFail(k) ==
  /\ m_client_map[k].state \in {"CONNECTING", "CONNECTED"}
  /\ m_client_map' = [m_client_map EXCEPT ![k].state = "FAILED"]
  /\ UNCHANGED << gate, mgr_stopped, announced, attr, inc, m_created,
                  m_service_name, m_host_name, m_connected_services_map,
                  m_event_callback_map, m_response_callback, events, silent, threw >>
  /\ UNCHANGED callVars
  /\ UNCHANGED asyncVars
  /\ UNCHANGED host_arg
  /\ UNCHANGED serverVars
  /\ UNCHANGED moreVars

\* a SetHostName that stores its argument as it is
HostNameVerbatim(host) == host

\* SetHostName: what it stores in m_host_name
HostNameToStore(host) == IF host = "*" THEN "" ELSE host

\* SetHostName(host_name_)
SetHostName(host) ==
  /\ m_host_name' = HostNameToStore(host)
  /\ host_arg' = host
  /\ UNCHANGED << gate, mgr_stopped, announced, attr, inc, m_created,
                  m_service_name, m_client_map, m_connected_services_map,
                  m_event_callback_map, m_response_callback, events, silent, threw >>
  /\ UNCHANGED callVars
  /\ UNCHANGED asyncVars
  /\ UNCHANGED serverVars
  /\ UNCHANGED moreVars

\* ------------------------------------------------- the blocking fan-out Call
\* the order in which GetServiceAttr lists the peers
KeyOrder == << "k1", "k2" >>
ServiceVec(name) == SelectSeq(KeyOrder, LAMBDA k : k \in GetServiceAttr(name))

\* a slot that is created without the "Timeout" default
DefaultResponseBlank(k, method) ==
  [host_name |-> attr[k].hname, service_name |-> Service, service_id |-> k,
   method_name |-> method, error_msg |-> "", ret_state |-> 0,
   call_state |-> "none", response |-> ""]

\* the slot Call pre-populates for a peer before it dispatches to it
DefaultResponse(k, method) ==
  [host_name |-> attr[k].hname, service_name |-> Service, service_id |-> k,
   method_name |-> method, error_msg |-> "Timeout", ret_state |-> 0,
   call_state |-> "failed", response |-> ""]

\* what a completion can be called with: a transport error, bytes that do
\* not parse, or a serialized eCAL::pb::Response
TransportError == [kind |-> "error", msg |-> "Connection closed"]
Unparsable     == [kind |-> "unparsable"]
PbResponse(k, method, state, err, rs, resp) ==
  [kind |-> "pb", hname |-> attr[k].hname, sname |-> Service, sid |-> "server",
   mname |-> method, error |-> err, state |-> state, ret_state |-> rs,
   response |-> resp]
Replies(k, method) ==
  { TransportError, Unparsable,
    PbResponse(k, method, "executed", "", 7, "hi"),
    PbResponse(k, method, "failed", "handler failed", 0, ""),
    PbResponse(k, method, "none", "", 0, "") }
NoReply == [kind |-> "none"]
\* the calling thread is not inside the response callback
NoArg == [call_state |-> "no call"]
AllReplies == UNION {Replies(k, m) : k \in Keys, m \in Methods}

\* a conversion that takes over the header and leaves out the payload
fromProtobufHeaderOnly(pb, response) ==
  [host_name |-> pb.hname, service_name |-> pb.sname, service_id |-> pb.sid,
   method_name |-> pb.mname, error_msg |-> pb.error, ret_state |-> response.ret_state,
   call_state |-> CASE pb.state = "executed" -> "executed"
                    [] pb.state = "failed"   -> "failed"
                    [] OTHER                 -> response.call_state,
   response |-> response.response]

\* fromProtobuf(response_pb, response)
fromProtobuf(pb, response) ==
  [host_name |-> pb.hname, service_name |-> pb.sname, service_id |-> pb.sid,
   method_name |-> pb.mname, error_msg |-> pb.error, ret_state |-> pb.ret_state,
   call_state |-> CASE pb.state = "executed" -> "executed"
                    [] pb.state = "failed"   -> "failed"
                    [] OTHER                 -> response.call_state,
   response |-> pb.response]

\* fromSerializedProtobuf(response_pb_string, response)
fromSerializedProtobuf(bytes, response) ==
  IF bytes.kind = "pb"
  THEN fromProtobuf(bytes, response)
  ELSE [response EXCEPT !.error_msg = "Could not parse server response",
                        !.ret_state = 0, !.call_state = "failed", !.response = ""]

\* a completion that leaves the slot alone when the transport reports an error
response_callback_ignoring_errors(reply, response) ==
  IF reply.kind = "error" THEN response
                          ELSE fromSerializedProtobuf(reply, response)

\* the response_callback lambda of Call: what it leaves in its slot
response_callback(reply, response) ==
  IF reply.kind = "error"
  THEN [response EXCEPT !.error_msg = reply.msg, !.call_state = "failed",
                        !.ret_state = 0]
  ELSE fromSerializedProtobuf(reply, response)

\* a dispatch loop that ignores the host filter
HostFilterIgnored(k) == TRUE

\* Call: "Only call service if host name matches"
HostMatches(k) == m_host_name = "" \/ m_host_name = attr[k].hname

\* a wait that treats timeout 0 as a deadline like any other
WaitOverAlsoForZero(t) == expected = finished \/ t >= 0

\* Call: the wait_for / wait on the condition variable may return
WaitOver(t) == expected = finished \/ t > 0

\* a copy that leaves out the slots no completion has filled
CopyFilledOnly(resp) == SelectSeq(resp, LAMBDA r : r.error_msg # "Timeout")

\* Call: "Now just copy our temporary return vector to the user's return vector"
CopyResponses(resp) == resp

\* a result that asks for every call to have been successful
AllExecuted(resp) == \A i \in 1..Len(resp) : resp[i].call_state = "executed"

\* Call: "Determine if any call has been successful"
AnyExecuted(resp) == \E i \in 1..Len(resp) : resp[i].call_state = "executed"

\* preconditions that leave out the test of the client gate
CallPreconditionsGateUnchecked(method) ==
  m_created /\ m_service_name # "" /\ method # ""

\* the preconditions Call checks before it touches anything
CallPreconditions(method) ==
  gate /\ m_created /\ m_service_name # "" /\ method # ""

\* the calling thread is in none of the call operations
Idle == pc \in {"idle", "returned", "rejected", "async_returned", "async_rejected"}

\* Call(method_name_, request_, timeout_, service_response_vec_): from its
\* entry to the start of the dispatch loop
CallEnter(method, t) ==
  /\ Idle
  /\ method_name' = method
  /\ timeout' = t
  /\ threw' = FALSE
  /\ IF ~CallPreconditions(method)
     THEN /\ pc' = "rejected"
          /\ ret' = FALSE
          /\ service_vec' = << >>
          /\ idx' = 1
          /\ responses' = << >>
          /\ expected' = 0
          /\ finished' = 0
          /\ pending' = {}
          /\ replies' = << >>
          /\ dispatched' = << >>
          /\ stale' = {}
          /\ late' = {}
          /\ UNCHANGED << m_client_map, inc, out >>
     ELSE /\ CanRefresh(m_service_name, m_client_map)
          /\ out' = << >>
          /\ stale' = {<< k, m_client_map[k].id >> : k \in
                         {x \in GetServiceAttr(m_service_name) :
                            m_client_map[x].state = "FAILED"}}
          /\ m_client_map' = CheckForNewServices(m_service_name, m_client_map)
          /\ inc' = IncAfter(m_service_name, m_client_map)
          /\ service_vec' = ServiceVec(m_service_name)
          /\ idx' = 1
          /\ responses' = << >>
          /\ expected' = 0
          /\ finished' = 0
          /\ pending' = {}
          /\ replies' = << >>
          /\ dispatched' = << >>
          /\ late' = {}
          /\ pc' = IF ServiceVec(m_service_name) = << >> THEN "wait" ELSE "dispatch"
          /\ UNCHANGED ret
  /\ UNCHANGED << gate, mgr_stopped, announced, attr, m_created, m_service_name,
                  m_host_name, m_connected_services_map, m_event_callback_map,
                  m_response_callback, events, silent >>
  /\ UNCHANGED host_arg
  /\ UNCHANGED serverVars
  /\ UNCHANGED << lifeVars, lockVars >>

\* the blocking call that returns the responses in the caller's vector
CallBegin(method, t) ==
  /\ CallEnter(method, t)
  /\ variant' = "vec"
  /\ visits' = << >>
  /\ UNCHANGED << m_response_callback_sync, async_calls, user_cb_arg >>
  /\ UNCHANGED lateVars

\* one pass of the dispatch loop of Call, for the peer service_vec[idx]
CallDispatch ==
  /\ pc = "dispatch"
  /\ LET k == service_vec[idx] IN
       IF HostMatches(k) /\ m_client_map[k].id # 0
       THEN /\ expected' = expected + 1
            /\ responses' = Append(responses, DefaultResponse(k, method_name))
            /\ replies' = Append(replies, NoReply)
            /\ pending' = pending \cup {Len(responses) + 1}
            /\ dispatched' = Append(dispatched,
                 [key |-> k, session |-> m_client_map[k].id,
                  stale |-> << k, m_client_map[k].id >> \in stale])
       ELSE UNCHANGED << expected, responses, replies, pending, dispatched >>
  /\ idx' = idx + 1
  /\ pc' = IF idx = Len(service_vec) THEN "wait" ELSE "dispatch"
  /\ UNCHANGED << gate, mgr_stopped, announced, attr, inc, m_created,
                  m_service_name, m_host_name, m_client_map,
                  m_connected_services_map, m_event_callback_map,
                  m_response_callback, events, silent, threw >>
  /\ UNCHANGED << method_name, timeout, service_vec, finished, stale,
                  late, out, ret >>
  /\ UNCHANGED asyncVars
  /\ UNCHANGED host_arg
  /\ UNCHANGED serverVars
  /\ UNCHANGED moreVars

\* the completion of slot i runs on an I/O thread
Completion(i, reply) ==
  /\ i \in pending
  /\ reply \in Replies(responses[i].service_id, method_name)
  /\ responses' = [responses EXCEPT ![i] = response_callback(reply, @)]
  /\ replies' = [replies EXCEPT ![i] = reply]
  /\ finished' = finished + 1
  /\ pending' = pending \ {i}
  /\ UNCHANGED << gate, mgr_stopped, announced, attr, inc, m_created,
                  m_service_name, m_host_name, m_client_map,
                  m_connected_services_map, m_event_callback_map,
                  m_response_callback, events, silent, threw >>
  /\ UNCHANGED << pc, method_name, timeout, service_vec, idx, expected,
                  dispatched, stale, late, out, ret >>
  /\ UNCHANGED asyncVars
  /\ UNCHANGED host_arg
  /\ UNCHANGED serverVars
  /\ UNCHANGED moreVars

\* Call: the wait ends, the slots are copied and the result is returned
CallWake ==
  /\ pc = "wait"
  /\ WaitOver(timeout)
  /\ out' = CopyResponses(responses)
  /\ ret' = AnyExecuted(responses)
  /\ late' = pending
  /\ pc' = IF variant = "callback" /\ responses # << >> THEN "callbacks"
                                                         ELSE "returned"
  /\ service_vec' = << >>
  /\ idx' = 1
  /\ stale' = {}
  /\ UNCHANGED << gate, mgr_stopped, announced, attr, inc, m_created,
                  m_service_name, m_host_name, m_client_map,
                  m_connected_services_map, m_event_callback_map,
                  m_response_callback, events, silent, threw >>
  /\ UNCHANGED << method_name, timeout, responses, expected, finished,
                  pending, replies, dispatched >>
  /\ UNCHANGED asyncVars
  /\ UNCHANGED host_arg
  /\ UNCHANGED serverVars
  /\ UNCHANGED moreVars

\* ------------------------- the blocking fan-out under the aggregator mutex
\* the statements of Call and of its completions that run with *mutex
\* locked, one by one. pc = "slot_count" and "slot_emplace": the calling
\* thread is inside the block that creates a slot; "slot_dispatch": it has
\* left the block and is at async_call_service.

\* the aggregator mutex is locked
AggregatorHeld == pc \in {"slot_count", "slot_emplace"} \/ completing # {}

\* what the fine-grained steps leave alone
AggregatorFrame ==
  /\ UNCHANGED << gate, mgr_stopped, announced, attr, inc, m_created,
                  m_service_name, m_host_name, m_client_map,
                  m_connected_services_map, m_event_callback_map,
                  m_response_callback, events, silent, threw >>
  /\ UNCHANGED << method_name, timeout, service_vec, stale, late, out, ret >>
  /\ UNCHANGED asyncVars
  /\ UNCHANGED host_arg
  /\ UNCHANGED serverVars
  /\ UNCHANGED << lateVars, lifeVars, thread_op, thread_ip, held, callback_op >>

\* the loop of Call passes a peer it does not call
DispatchSkip ==
  /\ pc = "dispatch"
  /\ ~(HostMatches(service_vec[idx]) /\ m_client_map[service_vec[idx]].id # 0)
  /\ idx' = idx + 1
  /\ pc' = IF idx = Len(service_vec) THEN "wait" ELSE "dispatch"
  /\ UNCHANGED << responses, expected, finished, pending, replies, dispatched,
                  completing >>
  /\ AggregatorFrame

\* the loop of Call locks *mutex to create the slot of the peer
SlotLock ==
  /\ pc = "dispatch"
  /\ HostMatches(service_vec[idx]) /\ m_client_map[service_vec[idx]].id # 0
  /\ CanLock(AggregatorHeld)
  /\ pc' = "slot_count"
  /\ UNCHANGED << idx, responses, expected, finished, pending, replies,
                  dispatched, completing >>
  /\ AggregatorFrame

\* (*expected_service_call_count)++
SlotCount ==
  /\ pc = "slot_count"
  /\ expected' = expected + 1
  /\ pc' = "slot_emplace"
  /\ UNCHANGED << idx, responses, finished, pending, replies, dispatched,
                  completing >>
  /\ AggregatorFrame

\* responses->emplace_back() and the defaults of the slot; the block ends,
\* the mutex is unlocked
SlotEmplace ==
  /\ pc = "slot_emplace"
  /\ responses' = Append(responses, DefaultResponse(service_vec[idx], method_name))
  /\ replies' = Append(replies, NoReply)
  /\ pc' = "slot_dispatch"
  /\ UNCHANGED << idx, expected, finished, pending, dispatched, completing >>
  /\ AggregatorFrame

\* client->second->async_call_service(request, response_callback)
SlotDispatch ==
  /\ pc = "slot_dispatch"
  /\ LET k == service_vec[idx] IN
       /\ pending' = pending \cup {Len(responses)}
       /\ dispatched' = Append(dispatched,
            [key |-> k, session |-> m_client_map[k].id,
             stale |-> << k, m_client_map[k].id >> \in stale])
  /\ idx' = idx + 1
  /\ pc' = IF idx = Len(service_vec) THEN "wait" ELSE "dispatch"
  /\ UNCHANGED << responses, expected, finished, replies, completing >>
  /\ AggregatorFrame

\* the completion of slot i is called with reply and locks *mutex
CompletionLock(i, reply) ==
  /\ i \in pending
  /\ \A c \in completing : c.slot # i
  /\ reply \in Replies(responses[i].service_id, method_name)
  /\ CanLock(AggregatorHeld)
  /\ completing' = completing \cup {[slot |-> i, reply |-> reply, step |-> "write"]}
  /\ UNCHANGED << pc, idx, responses, expected, finished, pending, replies,
                  dispatched >>
  /\ AggregatorFrame

\* the completion writes its slot
CompletionWrite(c) ==
  /\ c \in completing
  /\ c.step = "write"
  /\ responses' = [responses EXCEPT ![c.slot] = response_callback(c.reply, @)]
  /\ replies' = [replies EXCEPT ![c.slot] = c.reply]
  /\ completing' = (completing \ {c}) \cup {[c EXCEPT !.step = "count"]}
  /\ UNCHANGED << pc, idx, expected, finished, pending, dispatched >>
  /\ AggregatorFrame

\* (*finished_service_call_count)++, notify_all, the mutex is unlocked
CompletionCount(c) ==
  /\ c \in completing
  /\ c.step = "count"
  /\ finished' = finished + 1
  /\ pending' = pending \ {c.slot}
  /\ completing' = completing \ {c}
  /\ UNCHANGED << pc, idx, responses, expected, replies, dispatched >>
  /\ AggregatorFrame

\* the wait of Call ends with *mutex locked, the slots are copied
CallWakeLocked ==
  /\ CanLock(AggregatorHeld)
  /\ CallWake

\* Call begins with no completion of an earlier fan-out outstanding
CallBeginFresh(method, t) ==
  /\ pending = {}
  /\ completing = {}
  /\ CallBegin(method, t)

\* ------------------------------------------------ the caller's vector
\* what the caller may have in the vector it passes to Call: nothing, or a
\* response of its own
CallerVectors ==
  { << >>,
    << [host_name |-> "h9", service_name |-> "other", service_id |-> "k9",
        method_name |-> "m9", error_msg |-> "", ret_state |-> 1,
        call_state |-> "executed", response |-> "earlier"] >> }

\* between two calls the caller puts something into its vector
CallerWritesVector(vec) ==
  /\ Idle
  /\ out # vec
  /\ out' = vec
  /\ UNCHANGED << gate, mgr_stopped, announced, attr, inc, m_created,
                  m_service_name, m_host_name, m_client_map,
                  m_connected_services_map, m_event_callback_map,
                  m_response_callback, events, silent, threw >>
  /\ UNCHANGED << pc, method_name, timeout, service_vec, idx, responses,
                  expected, finished, pending, replies, dispatched, stale,
                  late, ret >>
  /\ UNCHANGED asyncVars
  /\ UNCHANGED host_arg
  /\ UNCHANGED serverVars
  /\ UNCHANGED moreVars

\* ------------------------- completions that run after Call has returned
\* the aggregator of the fan-out that is returning, as its completions that
\* are still to run hold it
Aggregator ==
  [responses |-> responses, replies |-> replies, pending |-> pending,
   finished |-> finished]

\* Call begins while completions of the fan-out before it are still to run:
\* they keep the aggregator of that fan-out, this one makes its own
CallAfterTimeout(method, t) ==
  /\ pc = "returned"
  /\ pending # {}
  /\ prev.pending = {}
  /\ CallEnter(method, t)
  /\ variant' = "vec"
  /\ visits' = << >>
  /\ prev' = Aggregator
  /\ UNCHANGED << m_response_callback_sync, async_calls, user_cb_arg >>

\* a completion that writes to the aggregator of the fan-out that is running
CompletionTargetCurrent(own, current) == current

\* the aggregator a completion writes to: the one its closure captured
CompletionTarget(own, current) == own

\* the completion of slot i of the fan-out before the current one runs
LateCompletion(i, reply) ==
  /\ i \in prev.pending
  /\ reply \in Replies(prev.responses[i].service_id, prev.responses[i].method_name)
  /\ IF CompletionTarget("own", "current") = "own"
     THEN /\ prev' = [responses |-> [prev.responses EXCEPT
                                       ![i] = response_callback(reply, @)],
                      replies   |-> [prev.replies EXCEPT ![i] = reply],
                      pending   |-> prev.pending \ {i},
                      finished  |-> prev.finished + 1]
          /\ UNCHANGED << responses, finished >>
     ELSE /\ prev' = [prev EXCEPT !.pending = @ \ {i}]
          /\ responses' = IF i <= Len(responses)
                          THEN [responses EXCEPT ![i] = response_callback(reply, @)]
                          ELSE responses
          /\ finished' = finished + 1
  /\ UNCHANGED << gate, mgr_stopped, announced, attr, inc, m_created,
                  m_service_name, m_host_name, m_client_map,
                  m_connected_services_map, m_event_callback_map,
                  m_response_callback, events, silent, threw >>
  /\ UNCHANGED << pc, method_name, timeout, service_vec, idx, expected,
                  pending, replies, dispatched, stale, late, out, ret >>
  /\ UNCHANGED asyncVars
  /\ UNCHANGED host_arg
  /\ UNCHANGED serverVars
  /\ UNCHANGED << lifeVars, lockVars >>

\* ------------------------------------- Call with callback, CallAsync
\* bound on the async calls of CallAsync whose completion has not returned
MaxAsync == 2

\* Call(method_name_, request_, timeout_): the blocking call into a local
\* response vector, from its entry to the start of the dispatch loop
CallWithCallback(method, t) ==
  /\ CallEnter(method, t)
  /\ variant' = "callback"
  /\ visits' = << >>
  /\ UNCHANGED << m_response_callback_sync, async_calls, user_cb_arg >>
  /\ UNCHANGED lateVars

\* a loop that does not report the slots that timed out
SlotsSkippingTimeouts(vec) == {i \in 1..Len(vec) : vec[i].error_msg # "Timeout"}

\* Call with callback: the slots its loop iterates over
SlotsToVisit(vec) == 1..Len(vec)

\* the slot the loop of Call with callback handles next, 0 at the end
NextVisit ==
  LET todo == {i \in SlotsToVisit(out) : \A j \in 1..Len(visits) : visits[j].slot # i}
  IN  IF todo = {} THEN 0 ELSE CHOOSE i \in todo : \A j \in todo : i <= j

\* a completion that invokes the callback without looking at it
InvokesAlways(callback) == TRUE

\* "if (m_response_callback)": the callback is invoked if one is set
InvokesCallback(callback) == callback

\* Call with callback: one pass of "iterate over responses and call the
\* callbacks", up to the call of the user's callback
CallbackVisit ==
  /\ pc = "callbacks"
  /\ NextVisit # 0
  /\ CanLock(m_response_callback_sync)
  /\ LET i == NextVisit
         invoked == InvokesCallback(m_response_callback)
         after == Append(visits, [slot |-> i, response |-> out[i],
                                  set |-> m_response_callback, invoked |-> invoked])
     IN  /\ visits' = after
         /\ IF invoked
            THEN /\ m_response_callback_sync' = TRUE
                 /\ user_cb_arg' = out[i]
                 /\ pc' = "in_callback"
            ELSE /\ UNCHANGED << m_response_callback_sync, user_cb_arg >>
                 /\ pc' = IF \A j \in SlotsToVisit(out) :
                               \E n \in 1..Len(after) : after[n].slot = j
                          THEN "returned" ELSE "callbacks"
  /\ UNCHANGED << gate, mgr_stopped, announced, attr, inc, m_created,
                  m_service_name, m_host_name, m_client_map,
                  m_connected_services_map, m_event_callback_map,
                  m_response_callback, events, silent, threw >>
  /\ UNCHANGED << method_name, timeout, service_vec, idx, responses, expected,
                  finished, pending, replies, dispatched, stale, late, out, ret >>
  /\ UNCHANGED << variant, async_calls >>
  /\ UNCHANGED host_arg
  /\ UNCHANGED serverVars
  /\ UNCHANGED moreVars

\* Call with callback: the user's callback returns, the lock_guard unlocks
CallbackReturn ==
  /\ pc = "in_callback"
  /\ m_response_callback_sync' = FALSE
  /\ user_cb_arg' = NoArg
  /\ pc' = IF NextVisit = 0 THEN "returned" ELSE "callbacks"
  /\ UNCHANGED << gate, mgr_stopped, announced, attr, inc, m_created,
                  m_service_name, m_host_name, m_client_map,
                  m_connected_services_map, m_event_callback_map,
                  m_response_callback, events, silent, threw >>
  /\ UNCHANGED << method_name, timeout, service_vec, idx, responses, expected,
                  finished, pending, replies, dispatched, stale, late, out, ret >>
  /\ UNCHANGED << variant, visits, async_calls >>
  /\ UNCHANGED host_arg
  /\ UNCHANGED serverVars
  /\ UNCHANGED moreVars

\* ErrorCallback(method_name_, error_message_): the response it reports
ErrorResponse(method, msg) ==
  [host_name |-> "", service_name |-> "", service_id |-> "",
   method_name |-> method, error_msg |-> msg, ret_state |-> 0,
   call_state |-> "failed", response |-> ""]

\* preconditions that leave out the check of the client gate
AsyncErrorGateUnchecked(method) ==
  IF ~m_created THEN "Client hasn't been created yet."
  ELSE IF m_service_name = "" \/ method = "" THEN "Invalid service or method name."
  ELSE ""

\* the message CallAsync hands to ErrorCallback, "" if it goes ahead
AsyncError(method) ==
  IF ~gate THEN "Clientgate error."
  ELSE IF ~m_created THEN "Client hasn't been created yet."
  ELSE IF m_service_name = "" \/ method = "" THEN "Invalid service or method name."
  ELSE ""

\* a dispatch loop of CallAsync that ignores the host filter
AsyncTargetsUnfiltered(cmap) ==
  SelectSeq(ServiceVec(m_service_name), LAMBDA k : cmap[k].id # 0)

\* CallAsync: the peers it calls, in the order of the discovery snapshot
AsyncTargets(cmap) ==
  SelectSeq(ServiceVec(m_service_name),
            LAMBDA k : HostMatches(k) /\ cmap[k].id # 0)

\* the async calls whose completion has not returned yet
InFlight == SelectSeq(async_calls, LAMBDA c : c.state # "done")

\* CallAsync: one async_call_service, its completion still to come
AsyncCall(k, method) ==
  [key |-> k, hname |-> attr[k].hname, method |-> method, state |-> "pending",
   fresh |-> TRUE, orphaned |-> FALSE, invoked |-> 0, dropped |-> FALSE,
   reply |-> NoReply, arg |-> NoArg]

\* CallAsync(method_name_, request_)
CallAsync(method) ==
  /\ Idle
  /\ method_name' = method
  /\ ret' = (AsyncError(method) = "" /\
             AsyncTargets(CheckForNewServices(m_service_name, m_client_map)) # << >>)
  /\ IF AsyncError(method) # ""
     THEN \* ErrorCallback
          /\ CanLock(m_response_callback_sync)
          /\ IF InvokesCallback(m_response_callback)
             THEN /\ m_response_callback_sync' = TRUE
                  /\ user_cb_arg' = ErrorResponse(method, AsyncError(method))
                  /\ pc' = "error_cb"
             ELSE /\ UNCHANGED << m_response_callback_sync, user_cb_arg >>
                  /\ pc' = "async_rejected"
          /\ UNCHANGED << m_client_map, inc, async_calls >>
     ELSE /\ CanRefresh(m_service_name, m_client_map)
          /\ LET cmap == CheckForNewServices(m_service_name, m_client_map)
                 targets == AsyncTargets(cmap)
                 kept == [i \in 1..Len(InFlight) |-> [InFlight[i] EXCEPT !.fresh = FALSE]]
             IN  /\ Len(kept) + Len(targets) <= MaxAsync
                 /\ m_client_map' = cmap
                 /\ inc' = IncAfter(m_service_name, m_client_map)
                 /\ async_calls' = kept \o [i \in 1..Len(targets) |->
                                              AsyncCall(targets[i], method)]
          /\ pc' = "async_returned"
          /\ UNCHANGED << m_response_callback_sync, user_cb_arg >>
  /\ UNCHANGED << gate, mgr_stopped, announced, attr, m_created, m_service_name,
                  m_host_name, m_connected_services_map, m_event_callback_map,
                  m_response_callback, events, silent, threw >>
  /\ UNCHANGED << timeout, service_vec, idx, responses, expected, finished,
                  pending, replies, dispatched, stale, late, out >>
  /\ UNCHANGED << variant, visits >>
  /\ UNCHANGED host_arg
  /\ UNCHANGED serverVars
  /\ UNCHANGED moreVars

\* ErrorCallback: the user's callback returns, the lock_guard unlocks
ErrorCallbackReturn ==
  /\ pc = "error_cb"
  /\ m_response_callback_sync' = FALSE
  /\ user_cb_arg' = NoArg
  /\ pc' = "async_rejected"
  /\ UNCHANGED << gate, mgr_stopped, announced, attr, inc, m_created,
                  m_service_name, m_host_name, m_client_map,
                  m_connected_services_map, m_event_callback_map,
                  m_response_callback, events, silent, threw >>
  /\ UNCHANGED << method_name, timeout, service_vec, idx, responses, expected,
                  finished, pending, replies, dispatched, stale, late, out, ret >>
  /\ UNCHANGED << variant, visits, async_calls >>
  /\ UNCHANGED host_arg
  /\ UNCHANGED serverVars
  /\ UNCHANGED moreVars

\* the response_callback lambda of CallAsync: the response it builds
AsyncResponse(hostname, reply) ==
  LET service_response_struct ==
        [host_name |-> hostname, service_name |-> Service, service_id |-> "",
         method_name |-> "", error_msg |-> "", ret_state |-> 0,
         call_state |-> "none", response |-> ""]
  IN  IF reply.kind = "error"
      THEN [service_response_struct EXCEPT !.error_msg = reply.msg,
                                           !.call_state = "failed",
                                           !.ret_state = 0]
      ELSE fromSerializedProtobuf(reply, service_response_struct)

\* the completion of the i-th async call of CallAsync runs on an I/O thread,
\* up to the call of the user's callback
AsyncCompletion(i, reply) ==
  /\ i \in 1..Len(async_calls)
  /\ async_calls[i].state = "pending"
  /\ reply \in Replies(async_calls[i].key, async_calls[i].method)
  /\ client_alive
  /\ CanLock(m_response_callback_sync)
  /\ IF InvokesCallback(m_response_callback)
     THEN /\ m_response_callback_sync' = TRUE
          /\ async_calls' = [async_calls EXCEPT
                               ![i].state = "running", ![i].invoked = @ + 1,
                               ![i].reply = reply,
                               ![i].arg = AsyncResponse(async_calls[i].hname, reply)]
     ELSE /\ UNCHANGED m_response_callback_sync
          /\ async_calls' = [async_calls EXCEPT
                               ![i].state = "done", ![i].dropped = TRUE]
  /\ UNCHANGED << gate, mgr_stopped, announced, attr, inc, m_created,
                  m_service_name, m_host_name, m_client_map,
                  m_connected_services_map, m_event_callback_map,
                  m_response_callback, events, silent, threw >>
  /\ UNCHANGED callVars
  /\ UNCHANGED << variant, visits, user_cb_arg >>
  /\ UNCHANGED host_arg
  /\ UNCHANGED serverVars
  /\ UNCHANGED moreVars

\* the user's callback returns to the completion, the lock_guard unlocks
AsyncCallbackReturn(i) ==
  /\ i \in 1..Len(async_calls)
  /\ async_calls[i].state = "running"
  /\ m_response_callback_sync' = FALSE
  /\ async_calls' = [async_calls EXCEPT ![i].state = "done",
                                        ![i].reply = NoReply, ![i].arg = NoArg]
  /\ UNCHANGED << gate, mgr_stopped, announced, attr, inc, m_created,
                  m_service_name, m_host_name, m_client_map,
                  m_connected_services_map, m_event_callback_map,
                  m_response_callback, events, silent, threw >>
  /\ UNCHANGED callVars
  /\ UNCHANGED << variant, visits, user_cb_arg >>
  /\ UNCHANGED host_arg
  /\ UNCHANGED serverVars
  /\ UNCHANGED moreVars

\* ------------------------------------------- the destructor of the client
\* what the undefined behaviour of a use after the destructor can come to
AfterDestructOutcomes == {"dropped", "invoked", "crashed"}

\* ~CServiceClientImpl(): Destroy(), which returns at once on a client that
\* is not created; then the object is gone
Destruct ==
  /\ client_alive
  /\ Idle
  /\ client_alive' = FALSE
  /\ UNCHANGED uaf
  /\ \/ DestroyBody
     \/ /\ ~m_created
        /\ UNCHANGED << host_arg, gate, mgr_stopped, announced, attr, inc,
                        m_created, m_service_name, m_host_name, m_client_map,
                        m_connected_services_map, m_event_callback_map,
                        m_response_callback, events, silent, threw >>
        /\ UNCHANGED << callVars, asyncVars, serverVars, lateVars, lockVars >>

\* the completion of the i-th async call of CallAsync runs after the
\* destructor: the closure locks this->m_response_callback_sync and reads
\* this->m_response_callback of an object that is gone
AsyncCompletionAfterDestruct(i, outcome) ==
  /\ ~client_alive
  /\ i \in 1..Len(async_calls)
  /\ async_calls[i].state = "pending"
  /\ uaf' = TRUE
  /\ async_calls' = [async_calls EXCEPT
                       ![i].state = IF outcome = "crashed" THEN "crashed" ELSE "done",
                       ![i].dropped = (outcome = "dropped"),
                       ![i].invoked = IF outcome = "invoked" THEN @ + 1 ELSE @]
  /\ UNCHANGED client_alive
  /\ UNCHANGED << host_arg, gate, mgr_stopped, announced, attr, inc,
                  m_created, m_service_name, m_host_name, m_client_map,
                  m_connected_services_map, m_event_callback_map,
                  m_response_callback, events, silent, threw >>
  /\ UNCHANGED callVars
  /\ UNCHANGED << m_response_callback_sync, variant, visits, user_cb_arg >>
  /\ UNCHANGED << serverVars, lateVars, lockVars >>

\* ------------------------------- the mutexes the member functions take
\* m_client_map_sync, m_connected_services_map_sync,
\* m_event_callback_map_sync, m_response_callback_sync, named by what they
\* are declared to guard
Mutexes == {"client_map", "connected", "event", "response"}

\* the steps of a member function that matter here
Lock(m)    == [op |-> "lock",   on |-> m]
Unlock(m)  == [op |-> "unlock", on |-> m]
Read(o)    == [op |-> "read",   on |-> o]
Write(o)   == [op |-> "write",  on |-> o]
Invoke(cb) == [op |-> "call",   on |-> cb]

\* CheckForNewServices(), for one peer of the snapshot
CheckForNewServicesSteps ==
  << Lock("client_map"), Read("client_map"), Write("client_map"),
     Unlock("client_map") >>

\* Register(force_): the refresh, then the loop over the sessions with one
\* FAILED session that is in the connected map
RegisterSteps ==
  CheckForNewServicesSteps \o
  << Lock("client_map"), Read("client_map"), Read("connected"), Lock("event"),
     Read("event"), Invoke("event"), Write("connected"), Unlock("event"),
     Unlock("client_map") >>

\* a RegisterService that takes the two mutexes the other way round
RegisterServiceStepsEventFirst ==
  << Lock("event"), Lock("connected"), Read("connected"), Read("event"),
     Invoke("event"), Write("connected"), Unlock("connected"), Unlock("event") >>

\* RegisterService(key_, service_) for a new connection
RegisterServiceSteps ==
  << Lock("connected"), Read("connected"), Lock("event"), Read("event"),
     Invoke("event"), Write("connected"), Unlock("event"), Unlock("connected") >>

\* IsConnected()
IsConnectedSteps == << Lock("connected"), Read("connected"), Unlock("connected") >>

\* Destroy()
DestroySteps ==
  << Lock("client_map"), Write("client_map"), Unlock("client_map"),
     Lock("response"), Write("response"), Unlock("response"),
     Lock("event"), Write("event"), Unlock("event") >>

\* AddEventCallback(type_, callback_), RemEventCallback(type_)
AddEventCallbackSteps == << Lock("event"), Write("event"), Unlock("event") >>
RemEventCallbackSteps == << Lock("event"), Write("event"), Unlock("event") >>

\* AddResponseCallback(callback_), RemResponseCallback()
AddResponseCallbackSteps == << Lock("response"), Write("response"), Unlock("response") >>
RemResponseCallbackSteps == << Lock("response"), Write("response"), Unlock("response") >>

\* the blocking Call into a vector, with one peer
CallSteps ==
  CheckForNewServicesSteps \o
  << Lock("client_map"), Read("client_map"), Unlock("client_map") >>

\* the blocking Call that reports to the response callback, with one response
CallWithCallbackSteps ==
  CallSteps \o
  << Lock("response"), Read("response"), Invoke("response"), Unlock("response") >>

\* CallAsync(method_name_, request_), with one peer
CallAsyncSteps ==
  CheckForNewServicesSteps \o
  << Lock("client_map"), Read("client_map"), Unlock("client_map") >>

\* the completion of CallAsync, and ErrorCallback
AsyncCompletionSteps ==
  << Lock("response"), Read("response"), Invoke("response"), Unlock("response") >>

\* what a thread can be asked to run
MemberFunctions ==
  {"Create", "Destroy", "Register", "RegisterService", "IsConnected",
   "AddEventCallback", "RemEventCallback", "AddResponseCallback",
   "RemResponseCallback", "Call", "CallWithCallback", "CallAsync",
   "AsyncCompletion"}

\* Create(service_name_) runs Register(false)
StepsOf(f) ==
  CASE f = "Create"              -> RegisterSteps
    [] f = "Destroy"             -> DestroySteps
    [] f = "Register"            -> RegisterSteps
    [] f = "RegisterService"     -> RegisterServiceSteps
    [] f = "IsConnected"         -> IsConnectedSteps
    [] f = "AddEventCallback"    -> AddEventCallbackSteps
    [] f = "RemEventCallback"    -> RemEventCallbackSteps
    [] f = "AddResponseCallback" -> AddResponseCallbackSteps
    [] f = "RemResponseCallback" -> RemResponseCallbackSteps
    [] f = "Call"                -> CallSteps
    [] f = "CallWithCallback"    -> CallWithCallbackSteps
    [] f = "CallAsync"           -> CallAsyncSteps
    [] f = "AsyncCompletion"     -> AsyncCompletionSteps

\* thread t is inside a member function
Inside(t) == thread_op[t] # "none"

\* where steps invokes the user callback, 0 if nowhere
InvokeAt(steps) ==
  IF \E i \in 1..Len(steps) : steps[i].op = "call"
  THEN CHOOSE i \in 1..Len(steps) :
         /\ steps[i].op = "call"
         /\ \A j \in 1..(i - 1) : steps[j].op # "call"
  ELSE 0

\* the steps of member function f when the user callback it invokes calls
\* member function g of the same client on the same thread
StepsWithCallback(f, g) ==
  LET steps == StepsOf(f)
      at    == InvokeAt(steps)
  IN  IF g = "none" \/ at = 0
      THEN steps
      ELSE SubSeq(steps, 1, at) \o StepsOf(g) \o SubSeq(steps, at + 1, Len(steps))

\* the steps thread t runs
Program(t) == StepsWithCallback(thread_op[t], callback_op[t])

\* the step thread t takes next
NextIns(t) == Program(t)[thread_ip[t]]

\* thread t holds mutex m
Holds(t, m) == \E i \in 1..Len(held[t]) : held[t][i] = m

\* no thread holds mutex m
Free(m) == \A t \in Threads : ~Holds(t, m)

\* the mutexes a thread holds after one unlock of m: the unlock of a
\* lock_guard ends the latest lock of m
ReleaseOne(seq, m) ==
  IF \E i \in 1..Len(seq) : seq[i] = m
  THEN LET at == CHOOSE i \in 1..Len(seq) :
                   /\ seq[i] = m
                   /\ \A j \in (i + 1)..Len(seq) : seq[j] # m
       IN  SubSeq(seq, 1, at - 1) \o SubSeq(seq, at + 1, Len(seq))
  ELSE seq

\* a thread enters member function f
ThreadBegin(t, f) ==
  /\ ~Inside(t)
  /\ thread_op' = [thread_op EXCEPT ![t] = f]
  /\ thread_ip' = [thread_ip EXCEPT ![t] = 1]
  /\ UNCHANGED << held, completing, callback_op >>
  /\ UNCHANGED << host_arg, gate, mgr_stopped, announced, attr, inc,
                  m_created, m_service_name, m_host_name, m_client_map,
                  m_connected_services_map, m_event_callback_map,
                  m_response_callback, events, silent, threw >>
  /\ UNCHANGED << callVars, asyncVars, serverVars, lateVars, lifeVars >>

\* thread t takes its next step; a lock_guard lets it pass when the mutex
\* is free
ThreadStep(t) ==
  /\ Inside(t)
  /\ LET ins  == NextIns(t)
         last == thread_ip[t] = Len(Program(t))
     IN  /\ ins.op = "lock" => Free(ins.on)
         /\ held' = [held EXCEPT ![t] =
                       IF ins.op = "lock" THEN Append(@, ins.on)
                       ELSE IF ins.op = "unlock"
                            THEN ReleaseOne(@, ins.on)
                            ELSE @]
         /\ thread_ip' = [thread_ip EXCEPT ![t] = IF last THEN 0 ELSE @ + 1]
         /\ thread_op' = [thread_op EXCEPT ![t] = IF last THEN "none" ELSE @]
         /\ callback_op' = [callback_op EXCEPT ![t] = IF last THEN "none" ELSE @]
  /\ UNCHANGED completing
  /\ UNCHANGED << host_arg, gate, mgr_stopped, announced, attr, inc,
                  m_created, m_service_name, m_host_name, m_client_map,
                  m_connected_services_map, m_event_callback_map,
                  m_response_callback, events, silent, threw >>
  /\ UNCHANGED << callVars, asyncVars, serverVars, lateVars, lifeVars >>

\* ---------------------------------- user callbacks that call the client
\* the member functions that invoke a user callback
CallbackFunctions ==
  {"Create", "Register", "RegisterService", "CallWithCallback", "AsyncCompletion"}

\* what a user callback may call on the client that invokes it
UserCalls ==
  {"AddResponseCallback", "RemResponseCallback", "AddEventCallback",
   "RemEventCallback", "IsConnected", "Call", "CallWithCallback", "CallAsync"}

\* a thread enters member function f, and the user callback f invokes calls g
ThreadBeginWithCallback(t, f, g) ==
  /\ ~Inside(t)
  /\ thread_op' = [thread_op EXCEPT ![t] = f]
  /\ thread_ip' = [thread_ip EXCEPT ![t] = 1]
  /\ callback_op' = [callback_op EXCEPT ![t] = g]
  /\ UNCHANGED << held, completing >>
  /\ UNCHANGED << host_arg, gate, mgr_stopped, announced, attr, inc,
                  m_created, m_service_name, m_host_name, m_client_map,
                  m_connected_services_map, m_event_callback_map,
                  m_response_callback, events, silent, threw >>
  /\ UNCHANGED << callVars, asyncVars, serverVars, lateVars, lifeVars >>

\* thread t is at the lock() of a std::mutex it owns
AtRelock(t) ==
  /\ Inside(t)
  /\ NextIns(t).op = "lock"
  /\ Holds(t, NextIns(t).on)

\* lock() of a std::mutex by its owner has no defined behaviour. The thread
\* may wait for ever (no step), the mutex may count the lock and let the
\* thread pass, or lock() may throw std::system_error, which leaves the user
\* callback and the member function and unlocks the lock_guards on the way
RelockOutcomes == {"recursive", "throws"}

RelockOwned(t, outcome) ==
  /\ AtRelock(t)
  /\ outcome \in RelockOutcomes
  /\ LET last == thread_ip[t] = Len(Program(t))
         gone == outcome = "throws" \/ last
     IN  /\ held' = [held EXCEPT ![t] =
                       IF outcome = "throws" THEN << >> ELSE Append(@, NextIns(t).on)]
         /\ thread_ip' = [thread_ip EXCEPT ![t] = IF gone THEN 0 ELSE @ + 1]
         /\ thread_op' = [thread_op EXCEPT ![t] = IF gone THEN "none" ELSE @]
         /\ callback_op' = [callback_op EXCEPT ![t] = IF gone THEN "none" ELSE @]
  /\ UNCHANGED completing
  /\ UNCHANGED << host_arg, gate, mgr_stopped, announced, attr, inc,
                  m_created, m_service_name, m_host_name, m_client_map,
                  m_connected_services_map, m_event_callback_map,
                  m_response_callback, events, silent, threw >>
  /\ UNCHANGED << callVars, asyncVars, serverVars, lateVars, lifeVars >>

\* ------------------------------------------------- the service server
SessionIds == 1..MaxSessions

\* everything of the service client
clientVars == << host_arg, gate, mgr_stopped, announced, attr, inc, m_created,
                 m_service_name, m_host_name, m_client_map,
                 m_connected_services_map, m_event_callback_map,
                 m_response_callback, events, silent, threw, callVars, asyncVars,
                 moreVars >>

\* the sessions created so far
Created == {s \in SessionIds : ssn[s] # "none"}

\* a session whose object exists: a weak pointer to it can be locked
Alive(s) == ssn[s] \in {"created", "running", "ending", "removing"}

\* an accept handler that calls start_accept twice
AcceptsPostedTwice(me) == IF me THEN 2 ELSE 0

\* the accepts one run of start_accept's caller posts: one with a live
\* ServerImpl, none when weak_me.lock() gives nothing
AcceptsPosted(me) == IF me THEN 1 ELSE 0

\* an accept handler that starts the session without adding it to the list
PushNothing(list, s) == list

\* session_list_.push_back(new_session)
PushSession(list, s) == Append(list, s)

\* ServerImpl::create(io_context, protocol_version, port, ...): the
\* constructor opens the acceptor, start_accept creates the first session and
\* posts the accept
ServerCreate ==
  /\ srv = "none"
  /\ srv' = "alive"
  /\ acceptor_open' = TRUE
  /\ ssn' = [ssn EXCEPT ![1] = "created"]
  /\ new_session' = 1
  /\ accept' = "posted"
  /\ accepts_outstanding' = AcceptsPosted(TRUE)
  /\ UNCHANGED << session_list_, stop_requested, session_list_mutex_ >>
  /\ UNCHANGED clientVars

\* a client connects: the outstanding async_accept completes without error
ConnectionArrives ==
  /\ accept = "posted"
  /\ acceptor_open
  /\ accept' = "succeeded"
  /\ UNCHANGED << srv, acceptor_open, new_session, session_list_, ssn, stop_requested,
                  accepts_outstanding, session_list_mutex_ >>
  /\ UNCHANGED clientVars

\* the completion handler of async_accept, with no error
AcceptHandler ==
  /\ accept = "succeeded"
  /\ IF srv = "alive"
     THEN \* add the session to the list, start it, accept the next one
          /\ CanLock(session_list_mutex_)
          /\ Cardinality(Created) < MaxSessions
          /\ session_list_' = PushSession(session_list_, new_session)
          /\ LET next == Cardinality(Created) + 1 IN
               /\ ssn' = [ssn EXCEPT ![new_session] = "running", ![next] = "created"]
               /\ new_session' = next
          /\ accept' = IF acceptor_open THEN "posted" ELSE "failed"
     ELSE \* weak_me.lock() gives nothing: "Service shutting down."
          /\ ssn' = [ssn EXCEPT ![new_session] = "dropped"]
          /\ new_session' = 0
          /\ accept' = "none"
          /\ UNCHANGED session_list_
  /\ accepts_outstanding' = accepts_outstanding - 1 + AcceptsPosted(srv = "alive")
  /\ UNCHANGED << srv, acceptor_open, stop_requested, session_list_mutex_ >>
  /\ UNCHANGED clientVars

\* the completion handler of async_accept, with an error: it returns
AcceptFailedHandler ==
  /\ accept = "failed"
  /\ ssn' = [ssn EXCEPT ![new_session] = "dropped"]
  /\ new_session' = 0
  /\ accept' = "none"
  /\ accepts_outstanding' = accepts_outstanding - 1
  /\ UNCHANGED << srv, acceptor_open, session_list_, stop_requested, session_list_mutex_ >>
  /\ UNCHANGED clientVars

\* ServerImpl::stop(): close the acceptor, stop the sessions of the list
\* that are still alive
ServerStop ==
  /\ srv = "alive"
  /\ CanLock(session_list_mutex_)
  /\ acceptor_open' = FALSE
  /\ accept' = IF accept = "posted" THEN "failed" ELSE accept
  /\ stop_requested' = stop_requested \cup
       {session_list_[i] : i \in {j \in 1..Len(session_list_) : Alive(session_list_[j])}}
  /\ UNCHANGED << srv, new_session, session_list_, ssn, accepts_outstanding,
                  session_list_mutex_ >>
  /\ UNCHANGED clientVars

\* ~ServerImpl(): stop(), then the object and its session list are gone
ServerDestroy ==
  /\ srv = "alive"
  /\ CanLock(session_list_mutex_)
  /\ srv' = "gone"
  /\ acceptor_open' = FALSE
  /\ accept' = IF accept = "posted" THEN "failed" ELSE accept
  /\ stop_requested' = stop_requested \cup
       {session_list_[i] : i \in {j \in 1..Len(session_list_) : Alive(session_list_[j])}}
  /\ session_list_' = << >>
  /\ UNCHANGED << new_session, ssn, accepts_outstanding, session_list_mutex_ >>
  /\ UNCHANGED clientVars

\* the connection of a running session ends: the client closes it, or an
\* I/O error occurs
PeerClose(s) ==
  /\ ssn[s] = "running"
  /\ ssn' = [ssn EXCEPT ![s] = "ending"]
  /\ UNCHANGED << srv, acceptor_open, accept, new_session, session_list_, stop_requested,
                  accepts_outstanding, session_list_mutex_ >>
  /\ UNCHANGED clientVars

\* a running session on which stop() has been called ends
SessionStopped(s) ==
  /\ ssn[s] = "running"
  /\ s \in stop_requested
  /\ ssn' = [ssn EXCEPT ![s] = "ending"]
  /\ UNCHANGED << srv, acceptor_open, accept, new_session, session_list_, stop_requested,
                  accepts_outstanding, session_list_mutex_ >>
  /\ UNCHANGED clientVars

\* a shutdown callback that leaves the list as it is
RemoveNothing(list, s) == list

\* an erase that takes the rest of the list with it
EraseFrom(list, i) == SubSeq(list, 1, i - 1)

\* session_list_.erase(session_it)
EraseAt(list, i) == SubSeq(list, 1, i - 1) \o SubSeq(list, i + 1, Len(list))

\* std::find_if over the list: the first entry that locks to the session,
\* 0 for end()
FindSession(list, s) ==
  IF \E i \in 1..Len(list) : list[i] = s
  THEN CHOOSE j \in 1..Len(list) :
         list[j] = s /\ \A n \in 1..Len(list) : list[n] = s => j <= n
  ELSE 0

\* the shutdown callback: "Remove the session from the session list"
RemoveSession(list, s) ==
  IF FindSession(list, s) # 0 THEN EraseAt(list, FindSession(list, s)) ELSE list

\* the session that ended calls the shutdown_callback of start_accept: with
\* a live ServerImpl it takes the list mutex, otherwise it is done
ShutdownCallback(s) ==
  /\ ssn[s] = "ending"
  /\ IF srv = "alive"
     THEN /\ CanLock(session_list_mutex_)
          /\ session_list_mutex_' = TRUE
          /\ ssn' = [ssn EXCEPT ![s] = "removing"]
     ELSE /\ ssn' = [ssn EXCEPT ![s] = "stopped"]
          /\ UNCHANGED session_list_mutex_
  /\ UNCHANGED << srv, acceptor_open, accept, new_session, session_list_,
                  stop_requested, accepts_outstanding >>
  /\ UNCHANGED clientVars

\* the shutdown callback, holding the mutex, erases the entry of its session
\* and releases the mutex
ShutdownCallbackErase(s) ==
  /\ ssn[s] = "removing"
  /\ session_list_' = RemoveSession(session_list_, s)
  /\ session_list_mutex_' = FALSE
  /\ ssn' = [ssn EXCEPT ![s] = "stopped"]
  /\ UNCHANGED << srv, acceptor_open, accept, new_session, stop_requested,
                  accepts_outstanding >>
  /\ UNCHANGED clientVars

\* ServerImpl::get_connection_count()
get_connection_count == Len(session_list_)

\* ServerImpl::is_connected()
is_connected == get_connection_count > 0

\* ------------------------------------------------------------------- Init
InitWith(descriptors) ==
  /\ gate \in BOOLEAN
  /\ mgr_stopped = FALSE
  /\ announced = {}
  /\ attr \in descriptors
  /\ inc = [k \in Keys |-> 0]
  /\ m_created = FALSE
  /\ m_service_name = ""
  /\ m_host_name = ""
  /\ m_client_map = [k \in Keys |-> NoSession]
  /\ m_connected_services_map = {}
  /\ m_event_callback_map = [e \in EventKinds |-> "absent"]
  /\ m_response_callback = FALSE
  /\ events = [k \in Keys |-> << >>]
  /\ silent = [k \in Keys |-> FALSE]
  /\ threw = FALSE
  /\ pc = "idle"
  /\ method_name = ""
  /\ timeout = 0
  /\ service_vec = << >>
  /\ idx = 1
  /\ responses = << >>
  /\ expected = 0
  /\ finished = 0
  /\ pending = {}
  /\ replies = << >>
  /\ dispatched = << >>
  /\ stale = {}
  /\ late = {}
  /\ out = << >>
  /\ ret = FALSE
  /\ m_response_callback_sync = FALSE
  /\ variant = "vec"
  /\ visits = << >>
  /\ async_calls = << >>
  /\ user_cb_arg = NoArg
  /\ host_arg = ""
  /\ srv = "none"
  /\ acceptor_open = FALSE
  /\ accept = "none"
  /\ new_session = 0
  /\ session_list_ = << >>
  /\ ssn = [s \in SessionIds |-> "none"]
  /\ stop_requested = {}
  /\ accepts_outstanding = 0
  /\ session_list_mutex_ = FALSE
  /\ prev = NoAggregator
  /\ client_alive = TRUE
  /\ uaf = FALSE
  /\ thread_op = [t \in Threads |-> "none"]
  /\ thread_ip = [t \in Threads |-> 0]
  /\ held = [t \in Threads |-> << >>]
  /\ completing = {}
  /\ callback_op = [t \in Threads |-> "none"]

Init == InitWith({DefaultAttr})

\* the client's life cycle and its connect/disconnect events
Next ==
  \/ \E name \in ServiceNames : Create(name)
  \/ Destroy
  \/ \E type \in EventKinds : AddEventCallback(type)
  \/ \E type \in EventKinds : RemEventCallback(type)
  \/ \E k \in Keys : ApplyServiceRegistration(k)
  \/ RefreshRegistration
  \/ AddResponseCallback
  \/ RemResponseCallback
  \/ \E k \in LifeCycleKeys : PeerAppear(k)
  \/ \E k \in Keys : PeerVanish(k)
  \/ \E k \in Keys : SessionConnect(k)
  \/ \E k \in Keys : SessionFail(k)

Spec == Init /\ [][Next]_vars

\* the blocking fan-out, its completions, and what can happen around it
NextCall ==
  \/ \E name \in ServiceNames : Create(name)
  \/ Destroy
  \/ \E host \in HostArgs \ {"*"} : SetHostName(host)
  \/ \E k \in Keys : PeerAppear(k)
  \/ \E k \in Keys : PeerVanish(k)
  \/ \E k \in Keys : SessionFail(k)
  \/ \E m \in Methods, t \in Timeouts : CallBegin(m, t)
  \/ CallDispatch
  \/ \E i \in 1..Len(responses), reply \in AllReplies : Completion(i, reply)
  \/ CallWake

SpecCall == Init /\ [][NextCall]_vars

\* the descriptors discovery may hold for a peer: each port absent (0) or
\* present, at least one present, the announced version 0 or 1
PortsV0 == {0, 5000}
PortsV1 == {0, 6000}
Versions == {0, 1}
Descriptors(k) ==
  {Descriptor(DefaultAttr[k].hname, p0, p1, v) :
     p0 \in PortsV0, p1 \in PortsV1, v \in Versions} \
  {Descriptor(DefaultAttr[k].hname, 0, 0, v) : v \in Versions}

InitVersion == InitWith({f \in [Keys -> UNION {Descriptors(k) : k \in Keys}] :
                           \A k \in Keys : f[k] \in Descriptors(k)})

\* discovery refresh over every descriptor a peer may announce
NextVersion ==
  \/ \E name \in ServiceNames : Create(name)
  \/ Destroy
  \/ RefreshRegistration
  \/ \E k \in Keys : PeerAppear(k)
  \/ \E k \in Keys : SessionFail(k)
  \/ ManagerStop

SpecVersion == InitVersion /\ [][NextVersion]_vars

\* CallAsync, its completions, and the client being destroyed under them
NextAsync ==
  \/ \E name \in ServiceNames : Create(name)
  \/ Destroy
  \/ AddResponseCallback
  \/ RemResponseCallback
  \/ \E host \in HostArgs \ {"*"} : SetHostName(host)
  \/ \E k \in Keys : PeerAppear(k)
  \/ \E m \in Methods : CallAsync(m)
  \/ ErrorCallbackReturn
  \/ \E i \in 1..Len(async_calls), reply \in AllReplies : AsyncCompletion(i, reply)
  \/ \E i \in 1..Len(async_calls) : AsyncCallbackReturn(i)
  \/ ManagerStop

SpecAsync == Init /\ [][NextAsync]_vars

\* the replies of the specification of the callback paths: a transport error
\* or an executed call
SomeReplies ==
  {r \in AllReplies : r.kind = "error" \/ (r.kind = "pb" /\ r.state = "executed")}

\* the three paths that invoke the response callback, side by side: the loop
\* of Call with callback, the completions of CallAsync, ErrorCallback
NextCallback ==
  \/ \E name \in ServiceNames : Create(name)
  \/ AddResponseCallback
  \/ RemResponseCallback
  \/ \E k \in Keys : PeerAppear(k)
  \/ \E m \in Methods, t \in Timeouts : CallWithCallback(m, t)
  \/ CallDispatch
  \/ \E i \in 1..Len(responses), reply \in SomeReplies : Completion(i, reply)
  \/ CallWake
  \/ CallbackVisit
  \/ CallbackReturn
  \/ \E m \in Methods : CallAsync(m)
  \/ ErrorCallbackReturn
  \/ \E i \in 1..Len(async_calls), reply \in SomeReplies : AsyncCompletion(i, reply)
  \/ \E i \in 1..Len(async_calls) : AsyncCallbackReturn(i)

SpecCallback == Init /\ [][NextCallback]_vars

\* the host filter and the peers the calls dispatch to, with no reply arriving
NextFilter ==
  \/ \E name \in ServiceNames : Create(name)
  \/ Destroy
  \/ \E host \in FilterArgs : SetHostName(host)
  \/ \E k \in Keys : PeerAppear(k)
  \/ ManagerStop
  \/ \E m \in Methods, t \in Timeouts : CallBegin(m, t)
  \/ CallDispatch
  \/ CallWake
  \/ \E m \in Methods : CallAsync(m)

SpecFilter == Init /\ [][NextFilter]_vars

\* the completions of the blocking Call and of CallAsync, with every reply a
\* session can hand to them
NextReplies ==
  \/ Create(Service)
  \/ AddResponseCallback
  \/ \E k \in Keys : PeerAppear(k)
  \/ \E t \in Timeouts : CallBegin("echo", t)
  \/ CallDispatch
  \/ \E i \in 1..Len(responses), reply \in AllReplies : Completion(i, reply)
  \/ CallWake
  \/ CallAsync("echo")
  \/ \E i \in 1..Len(async_calls), reply \in AllReplies : AsyncCompletion(i, reply)
  \/ \E i \in 1..Len(async_calls) : AsyncCallbackReturn(i)

SpecReplies == Init /\ [][NextReplies]_vars

\* blocking fan-outs one after the other, each with a timeout, and the
\* completions that run after their fan-out has returned
NextLate ==
  \/ Create(Service)
  \/ \E k \in Keys : PeerAppear(k)
  \/ CallBegin("echo", 100)
  \/ CallAfterTimeout("echo", 100)
  \/ CallDispatch
  \/ \E i \in 1..Len(responses), reply \in SomeReplies : Completion(i, reply)
  \/ CallWake
  \/ \E i \in 1..Len(prev.responses), reply \in SomeReplies : LateCompletion(i, reply)

SpecLate == Init /\ [][NextLate]_vars

\* the client object is destructed while completions of the blocking Call
\* and of CallAsync are still to run
NextDestruct ==
  \/ client_alive /\ Create(Service)
  \/ client_alive /\ AddResponseCallback
  \/ \E k \in Keys : PeerAppear(k)
  \/ client_alive /\ CallBegin("echo", 100)
  \/ client_alive /\ CallDispatch
  \/ \E i \in 1..Len(responses), reply \in SomeReplies : Completion(i, reply)
  \/ client_alive /\ CallWake
  \/ client_alive /\ CallAsync("echo")
  \/ \E i \in 1..Len(async_calls), reply \in SomeReplies : AsyncCompletion(i, reply)
  \/ \E i \in 1..Len(async_calls) : AsyncCallbackReturn(i)
  \/ Destruct
  \/ \E i \in 1..Len(async_calls), outcome \in AfterDestructOutcomes :
       AsyncCompletionAfterDestruct(i, outcome)

SpecDestruct == Init /\ [][NextDestruct]_vars

\* two threads run member functions of one client side by side
NextLocks ==
  \/ \E t \in Threads, f \in MemberFunctions : ThreadBegin(t, f)
  \/ \E t \in Threads : ThreadStep(t)

SpecLocks == Init /\ [][NextLocks]_vars

\* blocking fan-outs on a client that may lack the gate, not be created, have
\* no service name or be given no method name, with a vector the caller has
\* used before
NextReject ==
  \/ \E name \in ServiceNames : Create(name)
  \/ Destroy
  \/ \E k \in Keys : PeerAppear(k)
  \/ \E vec \in CallerVectors : CallerWritesVector(vec)
  \/ \E m \in Methods : CallBegin(m, 0)
  \/ CallDispatch
  \/ \E i \in 1..Len(responses), reply \in SomeReplies : Completion(i, reply)
  \/ CallWake

SpecReject == Init /\ [][NextReject]_vars

\* member functions whose user callbacks call back into the client
NextReentrant ==
  \/ \E t \in Threads, f \in CallbackFunctions, g \in UserCalls :
       ThreadBeginWithCallback(t, f, g)
  \/ \E t \in Threads : ThreadStep(t)
  \/ \E t \in Threads, outcome \in RelockOutcomes : RelockOwned(t, outcome)

SpecReentrant == Init /\ [][NextReentrant]_vars

\* the blocking fan-out statement by statement: the creation of the slots on
\* the calling thread and the completions on the I/O threads
NextAggregator ==
  \/ Create(Service)
  \/ \E k \in Keys : PeerAppear(k)
  \/ \E host \in HostArgs : SetHostName(host)
  \/ \E t \in Timeouts : CallBeginFresh("echo", t)
  \/ DispatchSkip
  \/ SlotLock
  \/ SlotCount
  \/ SlotEmplace
  \/ SlotDispatch
  \/ \E i \in 1..Len(responses), reply \in SomeReplies : CompletionLock(i, reply)
  \/ \E c \in completing : CompletionWrite(c)
  \/ \E c \in completing : CompletionCount(c)
  \/ CallWakeLocked

SpecAggregator == Init /\ [][NextAggregator]_vars

\* the service server, its acceptor and its sessions
NextServer ==
  \/ ServerCreate
  \/ ConnectionArrives
  \/ AcceptHandler
  \/ AcceptFailedHandler
  \/ ServerStop
  \/ ServerDestroy
  \/ \E s \in SessionIds : PeerClose(s)
  \/ \E s \in SessionIds : SessionStopped(s)
  \/ \E s \in SessionIds : ShutdownCallback(s)
  \/ \E s \in SessionIds : ShutdownCallbackErase(s)

\* the I/O runtime runs every handler that is ready: the accept handlers, the
\* end of a session that was stopped, the shutdown callback of a session that
\* ended; when a client connects or closes its connection is up to the client
SpecServer ==
  /\ Init /\ [][NextServer]_vars
  /\ WF_vars(AcceptHandler)
  /\ WF_vars(AcceptFailedHandler)
  /\ \A s \in SessionIds : WF_vars(SessionStopped(s))
  /\ \A s \in SessionIds : WF_vars(ShutdownCallback(s))
  /\ \A s \in SessionIds : WF_vars(ShutdownCallbackErase(s))

\* every call operation, with and without a client gate, with no reply
\* arriving
NextGate ==
  \/ \E name \in ServiceNames : Create(name)
  \/ Destroy
  \/ AddResponseCallback
  \/ RemResponseCallback
  \/ \E k \in Keys : PeerAppear(k)
  \/ \E m \in Methods, t \in Timeouts : CallBegin(m, t)
  \/ \E m \in Methods, t \in Timeouts : CallWithCallback(m, t)
  \/ CallDispatch
  \/ CallWake
  \/ CallbackVisit
  \/ CallbackReturn
  \/ \E m \in Methods : CallAsync(m)
  \/ ErrorCallbackReturn

SpecGate == Init /\ [][NextGate]_vars

\* ===================================================== the claims, checked
\* what the completion of a slot leaves in it, field by field
WrittenBy(reply, slot) ==
  CASE reply.kind = "error" ->
         /\ slot.call_state = "failed"
         /\ slot.error_msg = reply.msg
         /\ slot.ret_state = 0
    [] reply.kind = "unparsable" ->
         /\ slot.call_state = "failed"
         /\ slot.error_msg = "Could not parse server response"
         /\ slot.ret_state = 0
         /\ slot.response = ""
    [] reply.kind = "pb" ->
         /\ slot.ret_state = reply.ret_state
         /\ slot.response = reply.response
         /\ slot.error_msg = reply.error
         /\ reply.state \in {"executed", "failed"} => slot.call_state = reply.state
    [] OTHER -> FALSE

\* the pre-populated outcome of a slot whose completion has not run
IsTimeoutDefault(slot) ==
  /\ slot.call_state = "failed"
  /\ slot.error_msg = "Timeout"
  /\ slot.ret_state = 0
  /\ slot.response = ""

\* C1: the blocking fan-out returns true if and only if, when its wait ends,
\* at least one aggregated slot (copied to the caller's vector under the same
\* lock) has call_state EXECUTED; a call that fails a precondition returns false.
C1_TrueIffSomeSlotExecuted ==
  /\ pc = "returned" => (ret <=> \E i \in 1..Len(out) : out[i].call_state = "executed")
  /\ pc = "rejected" => ret = FALSE

\* a fan-out over two peers returned true with one slot EXECUTED, one not
C1_Witness ==
  /\ pc = "returned" /\ ret /\ Len(out) = 2
  /\ out[1].call_state = "failed" /\ out[2].call_state = "executed"

\* C2: when a blocking fan-out returns, by completion or by timeout, the
\* caller's vector holds exactly one slot per async_call_service submitted.
C2_OneSlotPerDispatch ==
  pc = "returned" => Len(out) = Len(dispatched)

\* a fan-out that dispatched to two peers returned on the deadline with both
\* completions outstanding
C2_Witness ==
  pc = "returned" /\ Len(dispatched) = 2 /\ late = {1, 2} /\ Len(out) = 2

\* C3: when a blocking fan-out with timeout > 0 returns, every slot whose
\* completion had not run holds call_state FAILED, error_msg "Timeout",
\* ret_state 0 and an empty response, and every other slot holds what its
\* completion wrote.
C3_TimedOutSlotsKeepDefault ==
  (pc = "returned" /\ timeout > 0) =>
    \A i \in 1..Len(out) :
      IF i \in late THEN IsTimeoutDefault(out[i])
                    ELSE WrittenBy(replies[i], out[i])

\* one fast and one slow peer: true, one EXECUTED slot and one Timeout slot
C3_Witness ==
  /\ pc = "returned" /\ timeout > 0 /\ ret /\ Len(out) = 2 /\ late = {2}
  /\ out[1].call_state = "executed" /\ out[1].ret_state = 7
  /\ out[2].call_state = "failed" /\ out[2].error_msg = "Timeout"

\* C4: a blocking fan-out with timeout 0 returns only when the completion of
\* every dispatched call has run (finished = expected), it can return as soon
\* as that holds, and every slot it returns was written by its completion.
C4_ZeroTimeoutWaitsForAll ==
  /\ (pc = "returned" /\ timeout = 0) =>
       /\ late = {}
       /\ finished = expected
       /\ Len(out) = expected
       /\ \A i \in 1..Len(out) : WrittenBy(replies[i], out[i])
  /\ (pc = "wait" /\ finished = expected) => ENABLED CallWake

\* a fan-out with timeout 0 over two peers returned after both completions
C4_Witness ==
  /\ pc = "returned" /\ timeout = 0 /\ Len(out) = 2
  /\ out[1].call_state = "executed" /\ out[2].error_msg = "Connection closed"

\* a sequence of events that alternates and starts with connected
Alternates(seq) ==
  \A i \in 1..Len(seq) :
    seq[i].kind = IF i % 2 = 1 THEN "connected" ELSE "disconnected"

\* C5: for every peer key and every interleaving of RegisterService,
\* Register, session failures and AddEventCallback/RemEventCallback, the
\* connected and disconnected events delivered for the key alternate, starting
\* with connected, with no two consecutive events of the same kind.
C5_EventsAlternate ==
  \A k \in Keys : Alternates(events[k])

\* C6: connected fires at most once per peer key and session incarnation: of
\* the events delivered to subscribed callbacks, no two connected events of a
\* key belong to the same session.
C6_ConnectedOncePerIncarnation ==
  \A k \in Keys : ~silent[k] =>
    \A i, j \in 1..Len(events[k]) :
      (i < j /\ events[k][i].kind = "connected" /\ events[k][j].kind = "connected"
             /\ events[k][i].session # 0)
        => events[k][i].session # events[k][j].session

\* C7: every key of the connected-services map is a key of the peer-session
\* map, and its session is not FAILED.
C7_ConnectedHaveLiveSession ==
  \A k \in m_connected_services_map :
    m_client_map[k].id # 0 /\ m_client_map[k].state # "FAILED"

\* C8: no fan-out dispatches to a session that was already FAILED when the
\* fan-out refreshed discovery with the peer still announced.
C8_FailedSessionNotDispatched ==
  \A i \in 1..Len(dispatched) : ~dispatched[i].stale

\* C9: a session created by discovery refresh uses the announced version and
\* tcp_port_v1 if tcp_port_v1 # 0, and version 0 and tcp_port_v0 otherwise.
C9_VersionRule ==
  \A k \in Keys :
    m_client_map[k].id # 0 =>
      IF attr[k].tcp_port_v1 # 0
      THEN /\ m_client_map[k].version = attr[k].version
           /\ m_client_map[k].port = attr[k].tcp_port_v1
      ELSE /\ m_client_map[k].version = 0
           /\ m_client_map[k].port = attr[k].tcp_port_v0

\* C10: when Destroy() returns on a created client, the peer-session map, the
\* connected-services map and the event-callback table are empty and the
\* response callback is null.
C10_DestroyEmptiesAll ==
  [][(m_created /\ ~m_created') =>
       /\ \A k \in Keys : m_client_map'[k] = NoSession
       /\ m_connected_services_map' = {}
       /\ \A e \in EventKinds : m_event_callback_map'[e] = "absent"
       /\ ~m_response_callback']_vars

\* C11: a completion of CallAsync that runs after Destroy() has cleared the
\* response callback, and before a new callback is set, invokes no user
\* callback and is dropped; Destroy() does not wait for the completions that
\* are still to come.
C11_LateCompletionDropped ==
  /\ \A i \in 1..Len(async_calls) :
       (async_calls[i].orphaned /\ async_calls[i].state # "pending") =>
         /\ async_calls[i].state = "done"
         /\ async_calls[i].dropped
         /\ async_calls[i].invoked = 0
  /\ (m_created /\ ~m_response_callback_sync) => ENABLED Destroy

\* CallAsync dispatched to two peers with a callback set, Destroy() returned
\* with both completions outstanding, and both were dropped afterwards
C11_Witness ==
  /\ ~m_created
  /\ Len(async_calls) = 2
  /\ \A i \in 1..2 : /\ async_calls[i].orphaned
                     /\ async_calls[i].state = "done"
                     /\ async_calls[i].dropped

\* the invocations of the user's response callback that are in progress: on
\* the calling thread (the loop of Call with callback, ErrorCallback) and on
\* the I/O threads (the completions of CallAsync)
RunningCallbacks ==
  Cardinality({i \in 1..Len(async_calls) : async_calls[i].state = "running"})
    + (IF pc \in {"in_callback", "error_cb"} THEN 1 ELSE 0)

\* C12: no two invocations of the response callback of one client overlap in
\* time, whichever path invokes it, and each one runs with the
\* response-callback mutex held.
C12_CallbackInvocationsSerialized ==
  /\ RunningCallbacks <= 1
  /\ RunningCallbacks = 1 => m_response_callback_sync

\* the loop of Call with callback is inside the user's callback while one
\* completion of CallAsync has already invoked it and another is still to come
C12_Witness ==
  /\ pc = "in_callback"
  /\ \E i \in 1..Len(async_calls) : async_calls[i].state = "pending"
  /\ \E i \in 1..Len(async_calls) :
       async_calls[i].state = "done" /\ async_calls[i].invoked = 1

\* the peer passes the host filter and has a session in the peer-session map
Callable(k) ==
  /\ m_host_name = "" \/ m_host_name = attr[k].hname
  /\ m_client_map[k].id # 0

\* C13: a blocking fan-out for which no peer of the discovery snapshot both
\* passes the host filter and has a session dispatches nothing, finds its wait
\* condition true at once, returns false and leaves the caller's vector empty.
C13_NoMatchingPeer ==
  /\ [](/\ (pc = "wait" /\ dispatched = << >>) =>
              (expected = 0 /\ finished = expected /\ ENABLED CallWake)
        /\ (pc = "returned" /\ dispatched = << >>) => (~ret /\ out = << >>))
  /\ [][(pc = "dispatch" /\ idx' = idx + 1) =>
          (dispatched' = dispatched <=> ~Callable(service_vec[idx]))]_vars

\* peer k2 is announced and has a session, the filter asks for host h1: the
\* fan-out returned false with an empty vector
C13_Witness ==
  /\ pc = "returned" /\ ~ret /\ out = << >> /\ dispatched = << >>
  /\ announced = {"k2"} /\ m_client_map["k2"].id # 0 /\ m_host_name = "h1"

\* without a client gate no call operation creates a session, dispatches a
\* request or returns true
NoGateNoEffect ==
  /\ \A k \in Keys : m_client_map[k].id = 0
  /\ dispatched = << >>
  /\ async_calls = << >>
  /\ ~ret
  /\ pc \in {"idle", "rejected", "async_rejected", "error_cb"}

\* C14 as claimed: when the client gate is absent, every call operation
\* (blocking call, callback call, CallAsync) returns false and is a no-op: no
\* session is created, no request is dispatched, no user callback is invoked.
C14_NoGateNoCallback ==
  ~gate => (NoGateNoEffect /\ pc # "error_cb" /\ user_cb_arg = NoArg /\ visits = << >>)

\* C14, amended: when the client gate is absent, every call operation returns
\* false, creates no session and dispatches no request; the two blocking
\* variants invoke no user callback, and CallAsync reports the failure to the
\* response callback, if one is set, with call_state FAILED, ret_state 0, an
\* empty response and the error message "Clientgate error.".
C14_NoGateOnlyErrorCallback ==
  ~gate =>
    /\ NoGateNoEffect
    /\ visits = << >>
    /\ IF pc = "error_cb"
       THEN /\ m_response_callback
            /\ user_cb_arg = [host_name |-> "", service_name |-> "",
                              service_id |-> "", method_name |-> method_name,
                              error_msg |-> "Clientgate error.", ret_state |-> 0,
                              call_state |-> "failed", response |-> ""]
       ELSE user_cb_arg = NoArg

\* a created client without a client gate: CallAsync is inside the response
\* callback, reporting the error
C14_Witness ==
  /\ ~gate /\ m_created /\ m_service_name = Service
  /\ pc = "error_cb" /\ method_name = "echo"
  /\ user_cb_arg.error_msg = "Clientgate error."

\* C15: Call with callback returns what the blocking fan-out returns and,
\* after the wait has ended and not before, goes through every aggregated
\* slot in slot order, the slots still holding the Timeout default included,
\* and invokes the response callback once with each slot for which it finds a
\* callback set; it invokes nothing where none is set.
C15_CallbackPerSlot ==
  variant = "callback" =>
    /\ pc \in {"dispatch", "wait"} => visits = << >>
    /\ \A n \in 1..Len(visits) :
         /\ visits[n].slot = n
         /\ visits[n].response = out[n]
         /\ visits[n].invoked <=> visits[n].set
    /\ pc = "in_callback" =>
         (visits # << >> /\ visits[Len(visits)].invoked
                         /\ user_cb_arg = out[Len(visits)])
    /\ pc = "returned" =>
         /\ Len(visits) = Len(out)
         /\ Len(out) = Len(dispatched)
         /\ ret <=> \E i \in 1..Len(out) : out[i].call_state = "executed"

\* a Call with callback over one fast and one slow peer returned true after
\* it had invoked the callback with the EXECUTED slot and with the Timeout slot
C15_Witness ==
  /\ variant = "callback" /\ pc = "returned" /\ ret
  /\ Len(out) = 2 /\ late = {2}
  /\ out[1].call_state = "executed" /\ out[2].error_msg = "Timeout"
  /\ Len(visits) = 2 /\ visits[1].invoked /\ visits[2].invoked

\* C16: CallAsync submits exactly one asynchronous call to every peer of the
\* discovery snapshot that passes the host filter and has a session, returns
\* before any of their completions has run, returns true iff it submitted at
\* least one call, and each completion invokes the response callback at most
\* once, with the outcome of its peer.
C16_AsyncOnePerPeer ==
  /\ [](/\ pc \in {"async_rejected", "error_cb"} => ~ret
        /\ \A i \in 1..Len(async_calls) :
             LET c == async_calls[i] IN
               /\ c.state = "pending" => (c.invoked = 0 /\ ~c.dropped)
               /\ c.state = "running" =>
                    /\ c.invoked = 1 /\ ~c.dropped
                    /\ c.reply \in Replies(c.key, c.method)
                    /\ c.arg.host_name = attr[c.key].hname
                    /\ c.arg.service_name = Service
                    /\ WrittenBy(c.reply, c.arg)
               /\ c.state = "done" => (c.invoked = 1 <=> ~c.dropped) /\ c.invoked <= 1)
  /\ [][(pc # "async_returned" /\ pc' = "async_returned") =>
          LET targets == {k \in announced :
                            /\ m_service_name = Service
                            /\ m_host_name = "" \/ m_host_name = attr[k].hname
                            /\ m_client_map'[k].id # 0}
              fresh == {i \in 1..Len(async_calls') : async_calls'[i].fresh}
          IN  /\ {async_calls'[i].key : i \in fresh} = targets
              /\ Cardinality(fresh) = Cardinality(targets)
              /\ \A i \in fresh : /\ async_calls'[i].state = "pending"
                                  /\ async_calls'[i].invoked = 0
              /\ ret' <=> targets # {}]_vars

\* CallAsync returned true for two peers; the completion of the first is
\* inside the callback with the executed response, the second is still to come
C16_Witness ==
  /\ pc = "async_returned" /\ ret /\ Len(async_calls) = 2
  /\ async_calls[1].fresh /\ async_calls[2].fresh
  /\ async_calls[1].key = "k1" /\ async_calls[2].key = "k2"
  /\ async_calls[1].state = "running"
  /\ async_calls[1].arg.call_state = "executed"
  /\ async_calls[1].arg.response = "hi" /\ async_calls[1].arg.ret_state = 7
  /\ async_calls[2].state = "pending"

\* the peers a call dispatches to under the last argument of SetHostName:
\* every peer with a session for "*" and for no filter, the peers of that
\* host for any other argument
Admitted(k, cmap) ==
  /\ cmap[k].id # 0
  /\ host_arg \in {"", "*"} \/ attr[k].hname = host_arg

\* C17: after SetHostName("*") a call dispatches to the peers it dispatches
\* to with an empty filter, every peer of the snapshot that has a session;
\* after SetHostName with any other value it dispatches to the peers among
\* them whose host name equals that value. Checked for the blocking Call and
\* for CallAsync.
C17_StarIsNoFilter ==
  /\ [][(pc = "dispatch" /\ idx' = idx + 1) =>
          (dispatched' # dispatched <=> Admitted(service_vec[idx], m_client_map))]_vars
  /\ [][(pc # "async_returned" /\ pc' = "async_returned") =>
          {async_calls'[i].key : i \in {j \in 1..Len(async_calls') : async_calls'[j].fresh}}
            = {k \in GetServiceAttr(m_service_name) : Admitted(k, m_client_map')}]_vars

\* after SetHostName("*") a fan-out has dispatched to both peers, which are
\* on different hosts
C17_Witness ==
  /\ host_arg = "*" /\ pc = "wait" /\ Len(dispatched) = 2
  /\ attr[dispatched[1].key].hname # attr[dispatched[2].key].hname

\* a transport error or an undecodable response, as a response record
\* reports it
ReifiedError(reply, r) ==
  /\ r.call_state = "failed"
  /\ r.ret_state = 0
  /\ r.error_msg \notin {"", "Timeout"}
  /\ reply.kind = "error" => r.error_msg = reply.msg
  /\ reply.kind = "unparsable" =>
       (r.error_msg = "Could not parse server response" /\ r.response = "")

\* C18: a completion that carries a transport error, or a response that
\* cannot be decoded, raises no exception: it leaves call_state FAILED,
\* ret_state 0 and the transport reason, or the parse-failure message with an
\* empty response, in the slot of its peer (in the callback argument for
\* CallAsync), and it counts as a finished call.
C18_ErrorsReified ==
  /\ ~threw
  /\ finished = Len(responses) - Cardinality(pending)
  /\ \A i \in 1..Len(responses) :
       (i \notin pending /\ replies[i].kind \in {"error", "unparsable"}) =>
         ReifiedError(replies[i], responses[i])
  /\ \A i \in 1..Len(async_calls) :
       (async_calls[i].state = "running"
          /\ async_calls[i].reply.kind \in {"error", "unparsable"}) =>
         ReifiedError(async_calls[i].reply, async_calls[i].arg)

\* a fan-out with timeout 0 returned with one slot holding a transport error
\* and one a parse failure, while a completion of CallAsync is inside the
\* callback with a transport error
C18_Witness ==
  /\ pc = "returned" /\ timeout = 0 /\ ~ret /\ finished = 2 /\ Len(out) = 2
  /\ replies[1].kind = "error" /\ out[1].error_msg = "Connection closed"
  /\ replies[2].kind = "unparsable"
  /\ out[2].error_msg = "Could not parse server response"
  /\ \E i \in 1..Len(async_calls) :
       /\ async_calls[i].state = "running"
       /\ async_calls[i].arg.error_msg = "Connection closed"
       /\ async_calls[i].arg.call_state = "failed"

\* what the client makes of the response (ret, out_bytes, state, error) a
\* server sent for method m
RoundTrip(reply, m, r) ==
  /\ reply.state = "executed" =>
       /\ r.call_state = "executed"
       /\ r.ret_state = reply.ret_state
       /\ r.response = reply.response
       /\ r.method_name = m
  /\ reply.state = "failed" =>
       /\ r.call_state = "failed"
       /\ r.error_msg = reply.error

\* C19: if the server answers a call of method m with (ret, out_bytes,
\* EXECUTED), the slot of that peer (the callback argument for CallAsync) ends
\* with ret_state = ret, response = out_bytes, method_name = m and call_state
\* EXECUTED; a response whose header state is FAILED gives call_state FAILED
\* with the header's error string.
C19_ResponseRoundTrip ==
  /\ \A i \in 1..Len(responses) :
       (i \notin pending /\ replies[i].kind = "pb") =>
         RoundTrip(replies[i], method_name, responses[i])
  /\ \A i \in 1..Len(async_calls) :
       (async_calls[i].state = "running" /\ async_calls[i].reply.kind = "pb") =>
         RoundTrip(async_calls[i].reply, async_calls[i].method, async_calls[i].arg)

\* the fan-out "echo" returned true: the first peer executed it with ret 7
\* and payload "hi", the handler of the second failed
C19_Witness ==
  /\ pc = "returned" /\ ret /\ method_name = "echo" /\ Len(out) = 2
  /\ out[1].call_state = "executed" /\ out[1].ret_state = 7
  /\ out[1].response = "hi" /\ out[1].method_name = "echo"
  /\ out[2].call_state = "failed" /\ out[2].error_msg = "handler failed"

\* the sessions that have started and not yet finished their shutdown callback
Started == {s \in SessionIds : ssn[s] \in {"running", "ending", "removing"}}

\* the sessions the list holds
Listed == {session_list_[i] : i \in 1..Len(session_list_)}

\* C20 as stated: every session that has started eventually terminates and
\* is then no longer in the acceptor's list. A session ends when its client
\* closes the connection, on an I/O error or after stop(); with a client
\* that keeps its connection open and no stop() the session runs for ever.
C20_EverySessionTerminates ==
  \A s \in SessionIds :
    (ssn[s] = "running") ~> (ssn[s] = "stopped" /\ s \notin Listed)

\* C20: while the server exists its list holds exactly the sessions that
\* have started and whose shutdown callback has not run, each once, so that
\* once all of them have ended get_connection_count() is 0 and
\* is_connected() is false; a session whose connection has ended, or on
\* which stop() was called, eventually terminates and is out of the list.
C20_EndedSessionsRemoved ==
  /\ [](srv = "alive" =>
          /\ Listed = Started
          /\ get_connection_count = Cardinality(Started)
          /\ (Started = {} => get_connection_count = 0 /\ ~is_connected))
  /\ \A s \in SessionIds :
       (ssn[s] = "ending" \/ (ssn[s] = "running" /\ s \in stop_requested))
          ~> (ssn[s] = "stopped" /\ s \notin Listed)

\* two sessions ran and both ended; the server is still there and counts
\* no connection
C20_Witness ==
  /\ srv = "alive"
  /\ ssn[1] = "stopped"
  /\ ssn[2] = "stopped"
  /\ get_connection_count = 0

\* stop() has returned and the server object is still there
Stopped == srv = "alive" /\ ~acceptor_open

\* C21: once ServerImpl::stop() has run, every session of the list that was
\* alive has had stop() called on it and the outstanding accept has failed,
\* and no later step posts an accept, adds a session to the list or starts
\* one.
C21_StopIsFinal ==
  /\ [][ServerStop =>
          /\ \A s \in Listed : Alive(s) => s \in stop_requested'
          /\ (accept = "posted" => accept' = "failed")]_vars
  /\ [][Stopped =>
          /\ \A s \in SessionIds : ssn'[s] = "running" => ssn[s] = "running"
          /\ \A s \in SessionIds : ssn'[s] = "created" => ssn[s] = "created"
          /\ {session_list_'[i] : i \in 1..Len(session_list_')} \subseteq Listed]_vars

\* C28: a successful accept with a live server adds the new session to the
\* list, starts it and posts one accept, in one handler run under the list
\* mutex: the session that starts is in the list from that step on, every
\* started session of a live server is in the list, and never more than one
\* accept is outstanding.
C28_PushStartRepost ==
  /\ [](accepts_outstanding <= 1)
  /\ [](srv = "alive" => Started \subseteq Listed)
  /\ [][(AcceptHandler /\ srv = "alive") =>
          /\ ssn'[new_session] = "running"
          /\ session_list_' = Append(session_list_, new_session)
          /\ accepts_outstanding' = 1
          /\ new_session' # new_session
          /\ ssn'[new_session'] = "created"]_vars

\* a second session has been accepted and started while the first is still
\* running, and the next accept is posted
C28_Witness ==
  /\ srv = "alive"
  /\ session_list_ = << 1, 2 >>
  /\ ssn[1] = "running"
  /\ ssn[2] = "running"
  /\ accept = "posted"
  /\ accepts_outstanding = 1

\* the list without the entries of session s, the others in their order
Without(list, s) == SelectSeq(list, LAMBDA x : x # s)

\* the sessions whose shutdown callback holds the list mutex
Removing == {s \in SessionIds : ssn[s] = "removing"}

\* C29: the shutdown callback of a session takes exactly the entry of that
\* session out of the list and leaves the other entries and their order as
\* they are; with the ServerImpl gone it changes nothing; it is the only
\* one to change the list while the list mutex is held, and one callback
\* at most holds it.
C29_ShutdownRemovesOwnEntry ==
  /\ [][\A s \in SessionIds :
          ShutdownCallbackErase(s) =>
            /\ session_list_' = Without(session_list_, s)
            /\ Len(session_list_') = Len(session_list_) - (IF s \in Listed THEN 1 ELSE 0)]_vars
  /\ [][\A s \in SessionIds :
          (ShutdownCallback(s) /\ srv # "alive") =>
            (UNCHANGED session_list_ /\ ssn'[s] = "stopped")]_vars
  /\ [](Cardinality(Removing) <= 1 /\ (session_list_mutex_ <=> Removing # {}))
  /\ [][(session_list_mutex_ /\ session_list_' # session_list_) =>
          \E s \in Removing : ShutdownCallbackErase(s)]_vars

\* the first of two listed sessions has ended and its shutdown callback has
\* run: the list holds the second one only
C29_Witness ==
  /\ srv = "alive"
  /\ ssn[1] = "stopped"
  /\ ssn[2] \in {"running", "ending"}
  /\ session_list_ = << 2 >>

C22_DisconnectedOncePerFailure ==
  [][RefreshRegistration =>
       \A k \in Keys :
         IF k \in FailedConnected(m_client_map, m_connected_services_map)
         THEN /\ k \notin m_connected_services_map'
              /\ m_event_callback_map["disconnected"] = "set" =>
                   events'[k] = Append(events[k], Event("disconnected", k, m_client_map))
              /\ m_event_callback_map["disconnected"] # "set" => events'[k] = events[k]
         ELSE events'[k] = events[k]]_vars

\* the keys that have an entry in the peer-session map
HasEntry(cmap) == {k \in Keys : cmap[k].id # 0}

\* C27: the discovery refresh only adds entries to the peer-session map.
\* An entry, once there, keeps its session (only the session's state moves)
\* whether or not its peer is still announced, until Destroy() clears the
\* map; a refresh by Register() adds a session for exactly the announced
\* keys that have no entry, and none without the gate or with the client
\* manager stopped.
C27_RefreshOnlyAdds ==
  /\ [][(\E k \in HasEntry(m_client_map) :
            m_client_map'[k].id # m_client_map[k].id) => Destroy]_vars
  /\ [][~Destroy =>
          \A k \in HasEntry(m_client_map) :
            /\ m_client_map'[k].version = m_client_map[k].version
            /\ m_client_map'[k].port = m_client_map[k].port]_vars
  /\ [][RefreshRegistration =>
          HasEntry(m_client_map') =
            HasEntry(m_client_map) \cup
              (IF gate /\ ~mgr_stopped
               THEN GetServiceAttr(m_service_name) \ HasEntry(m_client_map)
               ELSE {})]_vars

\* Register() has run on the FAILED session of a peer that is not announced
\* any more (it delivered the disconnected event): the entry is still there
C27_Witness ==
  /\ m_created
  /\ "k1" \notin announced
  /\ m_client_map["k1"].id = 1
  /\ m_client_map["k1"].state = "FAILED"
  /\ events["k1"] # << >>
  /\ events["k1"][Len(events["k1"])].kind = "disconnected"

\* the slots in which two response vectors of the same length differ
Differ(a, b) == {i \in 1..Len(a) : a[i] # b[i]}

\* C26: once a blocking fan-out has returned, the caller's vector and the
\* returned boolean stay as they are; a completion that runs after the
\* return writes the slot of its own aggregator, which was still pending,
\* and adds one to that aggregator's finished counter, also when the next
\* fan-out is already running on an aggregator of its own.
C26_LateCompletionHarmless ==
  /\ [][(pc = "returned" /\ pc' = "returned") =>
          /\ out' = out /\ ret' = ret
          /\ finished' # finished =>
               /\ finished' = finished + 1
               /\ Len(responses') = Len(responses)
               /\ Differ(responses, responses') \subseteq pending \ pending'
               /\ Cardinality(pending \ pending') = 1]_vars
  /\ [][(prev' # prev /\ pc' = pc) =>
          /\ UNCHANGED << responses, expected, finished, pending, out, ret >>
          /\ prev'.finished = prev.finished + 1
          /\ Len(prev'.responses) = Len(prev.responses)
          /\ Differ(prev.responses, prev'.responses) \subseteq prev.pending \ prev'.pending
          /\ Cardinality(prev.pending \ prev'.pending) = 1]_vars

\* two fan-outs have timed out on the same slow peer; the completion of the
\* first ran while the second was waiting, the completion of the second
\* after it returned: both wrote EXECUTED into their own slot, the vector
\* the second call returned still says Timeout
C26_Witness ==
  /\ pc = "returned"
  /\ Len(out) = 1
  /\ out[1].error_msg = "Timeout"
  /\ ~ret
  /\ responses[1].call_state = "executed"
  /\ prev.pending = {}
  /\ Len(prev.responses) = 1
  /\ prev.responses[1].call_state = "executed"

\* C25: no completion handed to a client session uses the CServiceClientImpl
\* object: one that runs after the destructor touches only what its closure
\* co-owns, for the blocking fan-out and for CallAsync.
C25_ClosuresAvoidClient ==
  /\ ~uaf
  /\ ~client_alive => \A i \in 1..Len(async_calls) : async_calls[i].state # "crashed"

\* thread t is about to read or write object o
AtAccess(t, o) ==
  Inside(t) /\ NextIns(t).op \in {"read", "write"} /\ NextIns(t).on = o

\* C23: every read and every write of the connected-services map is done by
\* a thread that holds the connected-services mutex, so no two threads are
\* at an access of the map at the same time with one of them writing.
C23_ConnectedMapUnderMutex ==
  /\ \A t \in Threads : AtAccess(t, "connected") => Holds(t, "connected")
  /\ \A t, u \in Threads :
       (t # u /\ AtAccess(t, "connected") /\ AtAccess(u, "connected")) =>
         (NextIns(t).op = "read" /\ NextIns(u).op = "read")

\* the place of a mutex in the order peer-session map, connected-services
\* map, event-callback table, response callback
Rank(m) ==
  CASE m = "client_map" -> 1
    [] m = "connected"  -> 2
    [] m = "event"      -> 3
    [] m = "response"   -> 4

\* thread t is at a lock of a mutex that is not free
Blocked(t) == Inside(t) /\ NextIns(t).op = "lock" /\ ~Free(NextIns(t).on)

\* C24: a thread takes a mutex only when every mutex it holds comes earlier
\* in the order peer-session map, connected-services map, event-callback
\* table, response callback; no set of threads is reachable in which each
\* waits for a mutex another of the set holds.
C24_LockOrder ==
  /\ \A t \in Threads :
       (Inside(t) /\ NextIns(t).op = "lock") =>
         \A i \in 1..Len(held[t]) : Rank(held[t][i]) < Rank(NextIns(t).on)
  /\ \A t \in Threads :
       \A i, j \in 1..Len(held[t]) : i < j => Rank(held[t][i]) < Rank(held[t][j])
  /\ \A S \in SUBSET Threads :
       S # {} => \E t \in S :
         ~(Blocked(t) /\ \E u \in S : Holds(u, NextIns(t).on))

\* Register holds the peer-session map and the event table; RegisterService
\* on the other thread holds the connected-services map and waits for the
\* event table
C24_Witness ==
  \E t, u \in Threads :
    /\ thread_op[t] = "Register"
    /\ held[t] = << "client_map", "event" >>
    /\ thread_op[u] = "RegisterService"
    /\ held[u] = << "connected" >>
    /\ Blocked(u)

\* C32: a blocking fan-out that finds the client gate absent, the client not
\* created, the service name empty or the method name empty returns false,
\* creates no session, dispatches nothing and leaves the caller's vector as
\* it was passed in; one that passes these checks clears the vector.
C32_RejectedCallLeavesVector ==
  /\ [][\A m \in Methods, t \in Timeouts :
          (CallBegin(m, t) /\
             (~gate \/ ~m_created \/ m_service_name = "" \/ m = "")) =>
            /\ pc' = "rejected"
            /\ ~ret'
            /\ out' = out
            /\ m_client_map' = m_client_map
            /\ inc' = inc
            /\ dispatched' = << >>
            /\ expected' = 0]_vars
  /\ [][\A m \in Methods, t \in Timeouts :
          (CallBegin(m, t) /\ gate /\ m_created /\ m_service_name # "" /\ m # "") =>
            (pc' # "rejected" /\ out' = << >>)]_vars
  /\ [](pc = "rejected" => ~ENABLED CallDispatch)

\* a call without a client gate was rejected, the caller's vector still
\* holds the caller's response
C32_Witness ==
  /\ ~gate
  /\ m_created
  /\ pc = "rejected"
  /\ method_name = "echo"
  /\ ~ret
  /\ Len(out) = 1
  /\ out[1].response = "earlier"

\* the threads inside a block that holds the aggregator mutex
InsideAggregator ==
  (IF pc \in {"slot_count", "slot_emplace"} THEN 1 ELSE 0) + Cardinality(completing)

\* the calling thread is in the fan-out, before its wait has ended
InFanOut == pc \in {"dispatch", "slot_count", "slot_emplace", "slot_dispatch", "wait"}

\* C31: throughout a blocking fan-out the finished counter does not exceed
\* the expected counter, and the expected counter is the number of slots
\* whenever the calling thread is not between its increment and the
\* emplace_back that follows under the same lock; the completion of slot i
\* writes slot i only; the creation of a slot and the writes of the
\* completions never overlap, also while later peers are being dispatched.
C31_AggregatorConsistent ==
  /\ [](InFanOut =>
          /\ finished <= expected
          /\ finished + Cardinality(pending) <= expected
          /\ (pc # "slot_emplace" => expected = Len(responses))
          /\ (pc = "slot_emplace" => expected = Len(responses) + 1))
  /\ [](InsideAggregator <= 1)
  /\ [][\A c \in completing :
          CompletionWrite(c) =>
            /\ Len(responses') = Len(responses)
            /\ Differ(responses, responses') \subseteq {c.slot}
            /\ UNCHANGED << expected, finished >>]_vars
  /\ [][\A c \in completing :
          CompletionCount(c) =>
            (finished' = finished + 1 /\ UNCHANGED << responses, expected >>)]_vars

\* the completion of the first slot has written EXECUTED and holds the mutex
\* while the calling thread stands before the slot of the second peer
C31_Witness ==
  /\ pc = "dispatch"
  /\ idx = 2
  /\ HostMatches(service_vec[2])
  /\ Len(responses) = 1
  /\ responses[1].call_state = "executed"
  /\ \E c \in completing : c.slot = 1 /\ c.step = "count"
  /\ ~ENABLED SlotLock

\* the user callback of member function f calls g, one of the calls that
\* lock a mutex f holds while it invokes the callback
Reenters(f, g) ==
  \/ /\ f \in {"CallWithCallback", "AsyncCompletion"}
     /\ g \in {"AddResponseCallback", "RemResponseCallback"}
  \/ /\ f \in {"Create", "Register", "RegisterService"}
     /\ g \in {"AddEventCallback", "RemEventCallback"}
  \/ /\ f \in {"Create", "Register"}
     /\ g \in {"Call", "CallWithCallback", "CallAsync"}

\* thread t is at the first step of the member function its callback calls
AtCallbackEntry(t) ==
  /\ Inside(t)
  /\ callback_op[t] # "none"
  /\ thread_ip[t] = InvokeAt(StepsOf(thread_op[t])) + 1

====
